---- MODULE Spec2Model ----
(***************************************************************************)
(* Model of the property-health calculator of Prophealth-10.py             *)
(* (class PropertyHealthCalculator), of the values it consumes, and of the  *)
(* session state the dashboard (class Dashboard) keeps between script runs.*)
(*                                                                         *)
(* Numbers.  The calculator works on Python floats.  A float is modelled   *)
(* by the rational it stands for, a record [n, d] in lowest terms with     *)
(* d > 0, so that comparisons and sums are exact.  Two places where the    *)
(* binary representation decides the result are modelled as such:          *)
(*   - int(baseline * multiplier): the product is the binary64 product of  *)
(*     an integer and the double nearest to the decimal multiplier         *)
(*     (FloatMulInt);                                                      *)
(*   - round(x, 1) of a value that lies exactly half-way between two       *)
(*     tenths: the binary sum lies just above or just below the tie, so    *)
(*     either neighbour can be returned (Round1).                          *)
(***************************************************************************)
EXTENDS Integers, Sequences, FiniteSets, TLC

VARIABLES
    today,          \* datetime.datetime.now() / datetime.date.today(): <<year, month, day>>
    property_data,  \* the Property handed to the calculator
    args,           \* the scalar arguments of the call (age/expected_life, item_type/zip_code)
    pc,             \* "start", or the name of the method or handler that has run
    ret,            \* the value the method returned
    session_state,  \* st.session_state: a function from the keys present to values
    clock,          \* seconds since the server process started
    cache,          \* the store of @st.cache_data around get_weather_data
    http_requests   \* the requests.get calls made so far, oldest first, each with
                    \* the time it was issued, the time the call was done and its result

weather_vars == <<clock, cache, http_requests>>

vars == <<today, property_data, args, pc, ret, session_state, weather_vars>>

(***************************************************************************)
(* Bounds of the model                                                     *)
(***************************************************************************)
NegAges == 2       \* ages range over -NegAges..MaxAge
MaxAge == 100
NonPosLives == 1   \* expected lives range over -NonPosLives..MaxLife
MaxLife == 80
MinAge == 0 - NegAges
MinLife == 0 - NonPosLives
MaxZipLen == 5      \* ZIP strings of up to MaxZipLen characters (get_regional_info)
MaxCostZipLen == 2  \* ZIP strings of up to MaxCostZipLen characters (get_local_cost_estimate)
MaxRoofAge == 100   \* roof ages 0..MaxRoofAge (the form's number_input range)
YearsBack == 6      \* inspection dates are drawn from the YearsBack years before today

(***************************************************************************)
(* Exact rational arithmetic standing for float arithmetic                 *)
(***************************************************************************)
Abs(x) == IF x < 0 THEN -x ELSE x

RECURSIVE GCD(_, _)
GCD(a, b) == IF b = 0 THEN a ELSE GCD(b, a % b)

Rat(n, d) ==
    LET g == GCD(Abs(n), Abs(d))
        s == IF d < 0 THEN -1 ELSE 1
    IN  [n |-> s * (n \div g), d |-> s * (d \div g)]

RAdd(x, y) ==
    LET g == GCD(x.d, y.d)
    IN  Rat(x.n * (y.d \div g) + y.n * (x.d \div g), x.d * (y.d \div g))

RNeg(x) == [n |-> -x.n, d |-> x.d]
RSub(x, y) == RAdd(x, RNeg(y))
RMul(x, y) ==
    LET g1 == GCD(Abs(x.n), y.d)
        g2 == GCD(Abs(y.n), x.d)
    IN  Rat((x.n \div g1) * (y.n \div g2), (x.d \div g2) * (y.d \div g1))
RDiv(x, y) == RMul(x, Rat(y.d, y.n))
RLeq(x, y) == x.n * y.d <= y.n * x.d
RLt(x, y) == x.n * y.d < y.n * x.d
RMax(x, y) == IF RLeq(x, y) THEN y ELSE x
RInt(i) == [n |-> i, d |-> 1]

NoValue == [none |-> TRUE]
NoProperty == [address |-> ""]
NoArgs == [none |-> TRUE]
Epoch == <<2026, 1, 1>>

(***************************************************************************)
(* st.session_state.  Python's None is the string None, so that it can be  *)
(* compared with addresses; a key that was deleted is not in the domain.   *)
(***************************************************************************)
None == "None"

EmptySession == [k \in {} |-> None]

Get(ss, key, default) == IF key \in DOMAIN ss THEN ss[key] ELSE default

Put(ss, key, value) == [k \in DOMAIN ss \cup {key} |-> IF k = key THEN value ELSE ss[k]]

Del(ss, keys) == [k \in DOMAIN ss \ keys |-> ss[k]]

\* Dashboard.init_session_state: every key that is missing gets its default
SessionDefaults ==
    [properties |-> <<>>, maintenance_records |-> <<>>,
     show_add_property_form_main |-> FALSE,
     show_add_maintenance_form_main |-> FALSE,
     editing_property_address |-> None,
     active_tab |-> "Property Health",
     roi_property_address |-> None, roi_improvement_name |-> "",
     roi_estimated_cost |-> 0, roi_resale_value_increase |-> 0,
     roi_annual_savings |-> 0, roi_years_to_project |-> 5]

init_session_state(ss) ==
    [k \in DOMAIN ss \cup DOMAIN SessionDefaults |->
        IF k \in DOMAIN ss THEN ss[k] ELSE SessionDefaults[k]]

\* the session of a browser that has just loaded the page
FreshSession == init_session_state(EmptySession)

\* a server process that has just started: nothing cached, nothing requested
ColdCache == [k \in {} |-> None]
WeatherIdle ==
    /\ clock = 0
    /\ cache = ColdCache
    /\ http_requests = <<>>

(***************************************************************************)
(* Variants of calculate_age_score with one plausible slip each            *)
(***************************************************************************)
\* the floor max(0.0, ...) of the last branch is missing
calculate_age_score_nofloor(age0, expected_life) ==
    LET age == IF age0 < 0 THEN 0 ELSE age0
    IN  IF expected_life <= 0 THEN RInt(0)
        ELSE IF RLeq(RInt(age), RMul(RInt(expected_life), Rat(1, 10))) THEN RInt(100)
        ELSE LET ratio == Rat(age, expected_life)
             IN  IF RLeq(ratio, Rat(1, 2))
                 THEN RSub(RInt(100), RMul(ratio, RInt(20)))
                 ELSE IF RLeq(ratio, Rat(4, 5))
                 THEN RSub(RInt(90), RMul(RDiv(RSub(ratio, Rat(1, 2)), Rat(3, 10)), RInt(30)))
                 ELSE IF RLt(ratio, RInt(1))
                 THEN RSub(RInt(60), RMul(RDiv(RSub(ratio, Rat(4, 5)), Rat(1, 5)), RInt(40)))
                 ELSE LET over_ratio == RDiv(RInt(age - expected_life),
                                             RMul(RInt(expected_life), Rat(1, 5)))
                      IN  RSub(RInt(20), RMul(over_ratio, RInt(20)))

\* the third segment starts from 90.0 instead of 60.0
calculate_age_score_jump(age0, expected_life) ==
    LET age == IF age0 < 0 THEN 0 ELSE age0
    IN  IF expected_life <= 0 THEN RInt(0)
        ELSE IF RLeq(RInt(age), RMul(RInt(expected_life), Rat(1, 10))) THEN RInt(100)
        ELSE LET ratio == Rat(age, expected_life)
             IN  IF RLeq(ratio, Rat(1, 2))
                 THEN RSub(RInt(100), RMul(ratio, RInt(20)))
                 ELSE IF RLeq(ratio, Rat(4, 5))
                 THEN RSub(RInt(90), RMul(RDiv(RSub(ratio, Rat(1, 2)), Rat(3, 10)), RInt(30)))
                 ELSE IF RLt(ratio, RInt(1))
                 THEN RSub(RInt(90), RMul(RDiv(RSub(ratio, Rat(4, 5)), Rat(1, 5)), RInt(40)))
                 ELSE LET over_ratio == RDiv(RInt(age - expected_life),
                                             RMul(RInt(expected_life), Rat(1, 5)))
                      IN  RMax(RInt(0), RSub(RInt(20), RMul(over_ratio, RInt(20))))

\* the curve of the earlier snapshots: no early-life plateau, and one last
\* segment from 60 down to 0 at the expected life
calculate_age_score_v5(age, expected_life) ==
    IF age <= 0 THEN RInt(100)
    ELSE IF expected_life <= 0 THEN RInt(0)
    ELSE LET ratio == Rat(age, expected_life)
         IN  IF RLeq(ratio, Rat(1, 2))
             THEN RSub(RInt(100), RMul(ratio, RInt(20)))
             ELSE IF RLeq(ratio, Rat(4, 5))
             THEN RSub(RInt(90), RMul(RDiv(RSub(ratio, Rat(1, 2)), Rat(3, 10)), RInt(30)))
             ELSE RMax(RInt(0), RSub(RInt(60), RMul(RDiv(RSub(ratio, Rat(4, 5)), Rat(1, 5)), RInt(60))))

(***************************************************************************)
(* PropertyHealthCalculator.calculate_age_score                            *)
(***************************************************************************)
calculate_age_score(age0, expected_life) ==
    LET age == IF age0 < 0 THEN 0 ELSE age0
    IN  IF expected_life <= 0 THEN RInt(0)
        ELSE IF RLeq(RInt(age), RMul(RInt(expected_life), Rat(1, 10))) THEN RInt(100)
        ELSE LET ratio == Rat(age, expected_life)
             IN  IF RLeq(ratio, Rat(1, 2))
                 THEN RSub(RInt(100), RMul(ratio, RInt(20)))
                 ELSE IF RLeq(ratio, Rat(4, 5))
                 THEN RSub(RInt(90), RMul(RDiv(RSub(ratio, Rat(1, 2)), Rat(3, 10)), RInt(30)))
                 ELSE IF RLt(ratio, RInt(1))
                 THEN RSub(RInt(60), RMul(RDiv(RSub(ratio, Rat(4, 5)), Rat(1, 5)), RInt(40)))
                 ELSE LET over_ratio == RDiv(RInt(age - expected_life),
                                             RMul(RInt(expected_life), Rat(1, 5)))
                      IN  RMax(RInt(0), RSub(RInt(20), RMul(over_ratio, RInt(20))))

(***************************************************************************)
(* Specification SpecAgeScore: one call of calculate_age_score on an       *)
(* arbitrary integer age and expected life.                                *)
(***************************************************************************)
InitAgeScore ==
    /\ today = Epoch
    /\ property_data = NoProperty
    /\ args \in [age : MinAge..MaxAge, expected_life : MinLife..MaxLife]
    /\ pc = "start"
    /\ ret = NoValue
    /\ session_state = FreshSession
    /\ WeatherIdle

CallAgeScore ==
    /\ pc = "start"
    /\ "age" \in DOMAIN args
    /\ ret' = calculate_age_score(args.age, args.expected_life)
    /\ pc' = "calculate_age_score"
    /\ UNCHANGED <<today, property_data, args, session_state, weather_vars>>

NextAgeScore == CallAgeScore

SpecAgeScore == InitAgeScore /\ [][NextAgeScore]_vars

AgeScoreReturned == pc = "calculate_age_score"

\* C1: calculate_age_score returns a value in [0, 100] for every integer age
\* and every expected_life > 0, and returns 0 whenever expected_life <= 0.
C1_AgeScoreRange ==
    AgeScoreReturned =>
        /\ RLeq(RInt(0), ret) /\ RLeq(ret, RInt(100))
        /\ (args.expected_life <= 0 => ret = RInt(0))

\* C1 witness: a call with a negative age and a positive life has returned,
\* and so has (in another run) a call with a non-positive life.
C1_WitnessNegAge ==
    AgeScoreReturned /\ args.age < 0 /\ args.expected_life > 0 /\ ret = RInt(100)

\* C2: calculate_age_score is non-increasing in age for a fixed positive
\* expected life: every smaller age scores at least as much as the age of
\* the call that returned.
C2_AgeScoreMonotone ==
    (AgeScoreReturned /\ args.expected_life > 0) =>
        \A a1 \in MinAge..(args.age - 1) :
            RLeq(ret, calculate_age_score(a1, args.expected_life))

\* C2 witness: the call is the first age past the early-life plateau, where
\* the score drops strictly below the 100 of the age before it.
C2_WitnessPlateauEdge ==
    /\ AgeScoreReturned /\ args.expected_life > 0 /\ args.age > 0
    /\ 10 * (args.age - 1) <= args.expected_life
    /\ 10 * args.age > args.expected_life
    /\ RLt(ret, calculate_age_score(args.age - 1, args.expected_life))

\* The documented curve, in integers: the score s = n/d at age a >= 0 and life
\* L > 0 satisfies s * L = k for the numerator k of the segment a/L falls in.
CurveTimesLife(a, L) ==
    IF 10 * a <= L THEN 100 * L
    ELSE IF 2 * a <= L THEN 100 * L - 20 * a
    ELSE IF 5 * a <= 4 * L THEN 140 * L - 100 * a
    ELSE IF a < L THEN 220 * L - 200 * a
    ELSE IF 120 * L - 100 * a > 0 THEN 120 * L - 100 * a ELSE 0

\* C3: for age >= 0 and expected life L > 0 the score equals the documented
\* piecewise-linear curve in r = age/L (100 on the plateau, 100 - 20r,
\* 90 - 100(r - 0.5), 60 - 200(r - 0.8), max(0, 20 - 100(r - 1))); it is 100
\* at age 0 and exactly 0 from age 1.2 L on.
C3_AgeScoreCurve ==
    (AgeScoreReturned /\ args.age >= 0 /\ args.expected_life > 0) =>
        /\ ret.n * args.expected_life = ret.d * CurveTimesLife(args.age, args.expected_life)
        /\ (args.age = 0 => ret = RInt(100))
        /\ (5 * args.age >= 6 * args.expected_life => ret = RInt(0))

\* C3 witness: a call exactly at 1.2 times the expected life returned 0.
C3_WitnessZeroAtSixFifths ==
    /\ AgeScoreReturned /\ args.expected_life > 0
    /\ 5 * args.age = 6 * args.expected_life
    /\ ret = RInt(0)

(***************************************************************************)
(* PropertyHealthCalculator.__init__: the cost and region tables.          *)
(* A Python str is a sequence of one-character strings.                    *)
(***************************************************************************)
national_cost_baseline ==
    [item \in {"hvac_service", "hvac_replacement", "roof_repair", "roof_replacement",
               "electrical_panel", "plumbing_repair", "water_heater",
               "foundation_repair", "gutter_replacement"} |->
        CASE item = "hvac_service" -> [min |-> 200, max |-> 500, avg |-> 350]
          [] item = "hvac_replacement" -> [min |-> 5000, max |-> 12000, avg |-> 7500]
          [] item = "roof_repair" -> [min |-> 400, max |-> 2000, avg |-> 1000]
          [] item = "roof_replacement" -> [min |-> 10000, max |-> 30000, avg |-> 15000]
          [] item = "electrical_panel" -> [min |-> 1500, max |-> 4000, avg |-> 2500]
          [] item = "plumbing_repair" -> [min |-> 250, max |-> 1000, avg |-> 600]
          [] item = "water_heater" -> [min |-> 1000, max |-> 3500, avg |-> 1800]
          [] item = "foundation_repair" -> [min |-> 3000, max |-> 25000, avg |-> 10000]
          [] item = "gutter_replacement" -> [min |-> 1000, max |-> 3000, avg |-> 1700]]

DefaultKey == <<"d", "e", "f", "a", "u", "l", "t">>

regional_multipliers ==
    (<<"2", "2", "7", "0", "1">> :>
        [multiplier |-> Rat(85, 100), region |-> "Central Virginia - Rural", confidence |-> "high"])
    @@ (<<"2", "2", "1", "0", "2">> :>
        [multiplier |-> Rat(135, 100), region |-> "Northern Virginia - DC Metro", confidence |-> "high"])
    @@ (<<"1", "0", "0", "0", "1">> :>
        [multiplier |-> Rat(185, 100), region |-> "Manhattan, NY", confidence |-> "high"])
    @@ (<<"9", "0", "2", "1", "0">> :>
        [multiplier |-> Rat(165, 100), region |-> "Los Angeles Metro", confidence |-> "high"])
    @@ (<<"9", "4", "1", "0", "2">> :>
        [multiplier |-> Rat(175, 100), region |-> "San Francisco Bay Area", confidence |-> "high"])
    @@ (<<"6", "0", "6", "0", "1">> :>
        [multiplier |-> Rat(125, 100), region |-> "Chicago Metro", confidence |-> "high"])
    @@ (<<"2">> :>
        [multiplier |-> Rat(145, 100), region |-> "Northeast Corridor", confidence |-> "medium"])
    @@ (<<"9">> :>
        [multiplier |-> Rat(140, 100), region |-> "West Coast", confidence |-> "medium"])
    @@ (DefaultKey :>
        [multiplier |-> Rat(100, 100), region |-> "National Average", confidence |-> "low"])

(***************************************************************************)
(* PropertyHealthCalculator.get_regional_info                              *)
(***************************************************************************)
\* the prefix entry is looked up before the whole ZIP
get_regional_info_prefix_first(zip_code) ==
    IF zip_code # <<>> /\ <<zip_code[1]>> \in DOMAIN regional_multipliers
    THEN regional_multipliers[<<zip_code[1]>>]
    ELSE IF zip_code \in DOMAIN regional_multipliers
    THEN regional_multipliers[zip_code]
    ELSE regional_multipliers[DefaultKey]

get_regional_info(zip_code) ==
    IF zip_code \in DOMAIN regional_multipliers
    THEN regional_multipliers[zip_code]
    ELSE IF zip_code # <<>> /\ <<zip_code[1]>> \in DOMAIN regional_multipliers
    THEN regional_multipliers[<<zip_code[1]>>]
    ELSE regional_multipliers[DefaultKey]

(***************************************************************************)
(* int(b * x) for an int b >= 1 and a float literal x with two decimals in *)
(* [0.5, 2), as binary64 computes it.                                      *)
(*   x = m/100.  The double nearest to x is N * 2^-p with p = 52 for x in  *)
(*   [1, 2) and p = 53 for x in [0.5, 1), and m * 2^(p-2) = 25 N + d with  *)
(*   -12 <= d <= 12, so double(x) = x - (d/25) * 2^-p.  The exact product  *)
(*   is b*m/100 - b*(d/25)*2^-p and the float product is the double        *)
(*   nearest to it.  When b*m/100 is not an integer, or d <= 0, the        *)
(*   product truncates to floor(b*m/100).  When b*m/100 is an integer K    *)
(*   and d > 0 the exact product lies below K; it rounds up to K when it   *)
(*   is within half the spacing of the doubles below K (2^(E-52) for       *)
(*   2^E < K < 2^(E+1), 2^(E-53) for K = 2^E), and otherwise to a double   *)
(*   below K, which truncates to K - 1.                                    *)
(***************************************************************************)
RECURSIVE Pow2(_)
Pow2(k) == IF k <= 0 THEN 1 ELSE 2 * Pow2(k - 1)

RECURSIVE PowMod(_, _, _)
PowMod(base, k, mod) == IF k = 0 THEN 1 % mod ELSE (base * PowMod(base, k - 1, mod)) % mod

RECURSIVE FloorLog2(_)
FloorLog2(K) == IF K < 2 THEN 0 ELSE 1 + FloorLog2(K \div 2)

FloatMulInt(b, x) ==
    LET m == x.n * (100 \div x.d)
        p == IF m >= 100 THEN 52 ELSE 53
        r == ((m % 25) * PowMod(2, p - 2, 25)) % 25
        d == IF r > 12 THEN r - 25 ELSE r
        K == (b * m) \div 100
        E == FloorLog2(K)
        half == IF K = Pow2(E) THEN 2 ELSE 1
    IN  IF (b * m) % 100 # 0 \/ d <= 0 THEN K
        ELSE IF half * b * d * Pow2(53 - p) <= 25 * Pow2(E) THEN K
        ELSE K - 1

(***************************************************************************)
(* PropertyHealthCalculator.get_local_cost_estimate                        *)
(***************************************************************************)
get_local_cost_estimate(item_type, zip_code) ==
    IF item_type \notin DOMAIN national_cost_baseline
    THEN [min |-> 0, max |-> 0, avg |-> 0, confidence |-> "low",
          region |-> "Unknown", national_avg |-> 0]
    ELSE LET baseline == national_cost_baseline[item_type]
             regional_info == get_regional_info(zip_code)
             multiplier == regional_info.multiplier
         IN  [min |-> FloatMulInt(baseline.min, multiplier),
              max |-> FloatMulInt(baseline.max, multiplier),
              avg |-> FloatMulInt(baseline.avg, multiplier),
              confidence |-> regional_info.confidence,
              region |-> regional_info.region,
              national_avg |-> baseline.avg]

(***************************************************************************)
(* Specification SpecRegion: one call of get_regional_info on an arbitrary *)
(* ZIP string of at most MaxZipLen characters, or on a key of the table.   *)
(***************************************************************************)
ZipChars == {"0", "1", "2", "4", "6", "7", "9", "x"}

StringsUpTo(len) == UNION {[1..k -> ZipChars] : k \in 0..len}

InitRegion ==
    /\ today = Epoch
    /\ property_data = NoProperty
    /\ args \in [zip_code : StringsUpTo(MaxZipLen) \cup DOMAIN regional_multipliers]
    /\ pc = "start"
    /\ ret = NoValue
    /\ session_state = FreshSession
    /\ WeatherIdle

CallRegionalInfo ==
    /\ pc = "start"
    /\ DOMAIN args = {"zip_code"}
    /\ ret' = get_regional_info(args.zip_code)
    /\ pc' = "get_regional_info"
    /\ UNCHANGED <<today, property_data, args, session_state, weather_vars>>

NextRegion == CallRegionalInfo

SpecRegion == InitRegion /\ [][NextRegion]_vars

\* C8: get_regional_info resolves by strict precedence: the entry of the whole
\* ZIP when the ZIP is a key ("22102" gives 1.35, not the 1.45 of prefix "2");
\* otherwise the entry of its first character when that is a key; otherwise,
\* the empty string included, the default entry (1.0, National Average, low).
C8_RegionalPrecedence ==
    pc = "get_regional_info" =>
        LET zip == args.zip_code
            keys == DOMAIN regional_multipliers
        IN  /\ (zip \in keys => ret = regional_multipliers[zip])
            /\ (zip = <<"2", "2", "1", "0", "2">> => ret.multiplier = Rat(135, 100))
            /\ (zip \notin keys /\ Len(zip) > 0 /\ zip[1] = "2" =>
                    ret = [multiplier |-> Rat(145, 100), region |-> "Northeast Corridor",
                           confidence |-> "medium"])
            /\ (zip \notin keys /\ Len(zip) > 0 /\ zip[1] = "9" =>
                    ret = [multiplier |-> Rat(140, 100), region |-> "West Coast",
                           confidence |-> "medium"])
            /\ (zip \notin keys /\ (Len(zip) = 0 \/ zip[1] \notin {"2", "9"}) =>
                    ret = [multiplier |-> Rat(1, 1), region |-> "National Average",
                           confidence |-> "low"])

\* C8 witness: the lookup of "22102" returned the exact entry although its
\* first character is a prefix key.
C8_WitnessExactOverPrefix ==
    /\ pc = "get_regional_info"
    /\ args.zip_code = <<"2", "2", "1", "0", "2">>
    /\ ret.region = "Northern Virginia - DC Metro"

(***************************************************************************)
(* Specification SpecCost: one call of get_local_cost_estimate.            *)
(***************************************************************************)
ItemTypes == DOMAIN national_cost_baseline \cup {"", "window_replacement"}

InitCost ==
    /\ today = Epoch
    /\ property_data = NoProperty
    /\ args \in [item_type : ItemTypes,
                 zip_code : StringsUpTo(MaxCostZipLen) \cup DOMAIN regional_multipliers]
    /\ pc = "start"
    /\ ret = NoValue
    /\ session_state = FreshSession
    /\ WeatherIdle

CallLocalCostEstimate ==
    /\ pc = "start"
    /\ DOMAIN args = {"item_type", "zip_code"}
    /\ ret' = get_local_cost_estimate(args.item_type, args.zip_code)
    /\ pc' = "get_local_cost_estimate"
    /\ UNCHANGED <<today, property_data, args, session_state, weather_vars>>

NextCost == CallLocalCostEstimate

SpecCost == InitCost /\ [][NextCost]_vars

\* C9: for each known item type min, max and avg are the baseline value times
\* the regional multiplier truncated to an integer, national_avg is the
\* baseline avg, confidence and region are those of the regional entry; an
\* unknown item type gives min = max = avg = 0 and region "Unknown".
C9_CostEstimate ==
    pc = "get_local_cost_estimate" =>
        IF args.item_type \in DOMAIN national_cost_baseline
        THEN LET baseline == national_cost_baseline[args.item_type]
                 info == get_regional_info(args.zip_code)
                 mult == info.multiplier
             IN  /\ ret.min * mult.d <= baseline.min * mult.n
                 /\ baseline.min * mult.n < (ret.min + 1) * mult.d
                 /\ ret.max * mult.d <= baseline.max * mult.n
                 /\ baseline.max * mult.n < (ret.max + 1) * mult.d
                 /\ ret.avg * mult.d <= baseline.avg * mult.n
                 /\ baseline.avg * mult.n < (ret.avg + 1) * mult.d
                 /\ ret.national_avg = baseline.avg
                 /\ ret.confidence = info.confidence
                 /\ ret.region = info.region
        ELSE ret.min = 0 /\ ret.max = 0 /\ ret.avg = 0 /\ ret.region = "Unknown"

(***************************************************************************)
(* Dates.  A date is <<year, month, day>>; a date string is a sequence of  *)
(* characters.  toordinal, strftime("%Y-%m-%d") and                        *)
(* strptime(s, "%Y-%m-%d") follow Python's datetime.                       *)
(***************************************************************************)
IsLeap(y) == (y % 4 = 0 /\ y % 100 # 0) \/ y % 400 = 0

DaysInMonth(y, m) ==
    IF m \in {1, 3, 5, 7, 8, 10, 12} THEN 31
    ELSE IF m \in {4, 6, 9, 11} THEN 30
    ELSE IF IsLeap(y) THEN 29 ELSE 28

RECURSIVE DaysBeforeMonth(_, _)
DaysBeforeMonth(y, m) ==
    IF m <= 1 THEN 0 ELSE DaysBeforeMonth(y, m - 1) + DaysInMonth(y, m - 1)

toordinal(dt) ==
    LET p == dt[1] - 1
    IN  365 * p + (p \div 4) - (p \div 100) + (p \div 400)
        + DaysBeforeMonth(dt[1], dt[2]) + dt[3]

DigitChars == <<"0", "1", "2", "3", "4", "5", "6", "7", "8", "9">>

IsDigit(c) == \E i \in 1..10 : DigitChars[i] = c
DigitVal(c) == (CHOOSE i \in 1..10 : DigitChars[i] = c) - 1

RECURSIVE DecimalVal(_)
DecimalVal(s) ==
    IF s = <<>> THEN 0
    ELSE 10 * DecimalVal(SubSeq(s, 1, Len(s) - 1)) + DigitVal(s[Len(s)])

Pad2(v) == <<DigitChars[((v \div 10) % 10) + 1], DigitChars[(v % 10) + 1]>>
Pad4(v) == Pad2(v \div 100) \o Pad2(v % 100)

\* date.strftime("%Y-%m-%d")
strftime(dt) == Pad4(dt[1]) \o <<"-">> \o Pad2(dt[2]) \o <<"-">> \o Pad2(dt[3])

ValueError == [ok |-> FALSE]

\* datetime.strptime(s, "%Y-%m-%d").date(): %Y is four digits, %m one or two
\* digits in 1..12, %d one or two digits in 1..31; the whole string must
\* match and the day must exist in the month; anything else is a ValueError.
strptime(s) ==
    LET dashes == {i \in 1..Len(s) : s[i] = "-"}
    IN  IF Cardinality(dashes) # 2 THEN ValueError
        ELSE LET i == CHOOSE k \in dashes : \A l \in dashes : k <= l
                 j == CHOOSE k \in dashes : \A l \in dashes : l <= k
                 ys == SubSeq(s, 1, i - 1)
                 ms == SubSeq(s, i + 1, j - 1)
                 ds == SubSeq(s, j + 1, Len(s))
                 AllDigits(t) == \A k \in 1..Len(t) : IsDigit(t[k])
             IN  IF ~(/\ Len(ys) = 4 /\ Len(ms) \in {1, 2} /\ Len(ds) \in {1, 2}
                      /\ AllDigits(ys) /\ AllDigits(ms) /\ AllDigits(ds))
                 THEN ValueError
                 ELSE LET y == DecimalVal(ys)
                          m == DecimalVal(ms)
                          d == DecimalVal(ds)
                      IN  IF y >= 1 /\ m \in 1..12 /\ d >= 1 /\ d <= DaysInMonth(y, m)
                          THEN [ok |-> TRUE, date |-> <<y, m, d>>]
                          ELSE ValueError

NA == <<"N", "/", "A">>

(***************************************************************************)
(* round(x, 1): the tenth nearest to x.  When x is exactly half-way        *)
(* between two tenths the float that stands for x lies on either side of   *)
(* the tie (or on it), so both neighbours are possible results.            *)
(***************************************************************************)
Round1(x) ==
    LET n10 == 10 * x.n
        fl == n10 \div x.d
        twice == 2 * (n10 - fl * x.d)
    IN  IF twice < x.d THEN {Rat(fl, 10)}
        ELSE IF twice > x.d THEN {Rat(fl + 1, 10)}
        ELSE {Rat(fl, 10), Rat(fl + 1, 10)}

(***************************************************************************)
(* PropertyHealthCalculator.__init__: lifespans, foundation scores,        *)
(* weights.  dict.get(key, default) is Lookup.                             *)
(***************************************************************************)
roof_material_expected_lifespans ==
    [mat \in {"Asphalt Shingles", "Metal", "Tile", "Slate", "Wood", "Composite",
              "Flat Roof (TPO/EPDM)"} |->
        CASE mat = "Asphalt Shingles" -> 20
          [] mat = "Metal" -> 50
          [] mat = "Tile" -> 50
          [] mat = "Slate" -> 75
          [] mat = "Wood" -> 25
          [] mat = "Composite" -> 30
          [] mat = "Flat Roof (TPO/EPDM)" -> 20]

\* the Pier & Beam foundation is scored 60 instead of 70
foundation_scores_pier60 ==
    [f \in {"Concrete Slab", "Basement", "Crawl Space", "Pier & Beam"} |->
        CASE f = "Concrete Slab" -> 85
          [] f = "Basement" -> 90
          [] f = "Crawl Space" -> 75
          [] f = "Pier & Beam" -> 60]

foundation_scores ==
    [f \in {"Concrete Slab", "Basement", "Crawl Space", "Pier & Beam"} |->
        CASE f = "Concrete Slab" -> 85
          [] f = "Basement" -> 90
          [] f = "Crawl Space" -> 75
          [] f = "Pier & Beam" -> 70]

weights ==
    [structural |-> Rat(3, 10), systems |-> Rat(4, 10),
     safety |-> Rat(2, 10), environmental |-> Rat(1, 10)]

\* dict.get without its default: a missing key yields 0
Lookup_no_default(table, key, default) == IF key \in DOMAIN table THEN table[key] ELSE 0

Lookup(table, key, default) == IF key \in DOMAIN table THEN table[key] ELSE default

(***************************************************************************)
(* PropertyHealthCalculator.calculate_structural_score.  now is the value  *)
(* of datetime.datetime.now(); the result is the set of records the call   *)
(* can return.                                                             *)
(***************************************************************************)
\* the weights of building age and foundation are exchanged
calculate_structural_score_swapped(p, now) ==
    LET current_year == now[1]
        building_age == current_year - p.year_built
        building_age_score == calculate_age_score(building_age, 80)
        foundation_score == Lookup(foundation_scores, p.foundation_type, 75)
        expected_roof_life == Lookup(roof_material_expected_lifespans, p.roof_material, 20)
        roof_condition_score == calculate_age_score(p.roof_age, expected_roof_life)
        overall_structural_score ==
            RAdd(RAdd(RMul(building_age_score, Rat(3, 10)),
                      RMul(RInt(foundation_score), Rat(4, 10))),
                 RMul(roof_condition_score, Rat(3, 10)))
    IN  {[score |-> sc,
          components |-> ("Overall Building Age Factor" :> c1)
                         @@ ("Foundation Type" :> RInt(foundation_score))
                         @@ ("Roof Condition (Age/Material Adjusted)" :> c2)] :
            sc \in Round1(overall_structural_score),
            c1 \in Round1(building_age_score),
            c2 \in Round1(roof_condition_score)}

\* the building is given an expected life of 100 years
calculate_structural_score_life100(p, now) ==
    LET current_year == now[1]
        building_age == current_year - p.year_built
        building_age_score == calculate_age_score(building_age, 100)
        foundation_score == Lookup(foundation_scores, p.foundation_type, 75)
        expected_roof_life == Lookup(roof_material_expected_lifespans, p.roof_material, 20)
        roof_condition_score == calculate_age_score(p.roof_age, expected_roof_life)
        overall_structural_score ==
            RAdd(RAdd(RMul(building_age_score, Rat(4, 10)),
                      RMul(RInt(foundation_score), Rat(3, 10))),
                 RMul(roof_condition_score, Rat(3, 10)))
    IN  {[score |-> sc,
          components |-> ("Overall Building Age Factor" :> c1)
                         @@ ("Foundation Type" :> RInt(foundation_score))
                         @@ ("Roof Condition (Age/Material Adjusted)" :> c2)] :
            sc \in Round1(overall_structural_score),
            c1 \in Round1(building_age_score),
            c2 \in Round1(roof_condition_score)}

calculate_structural_score(p, now) ==
    LET current_year == now[1]
        building_age == current_year - p.year_built
        building_age_score == calculate_age_score(building_age, 80)
        foundation_score == Lookup(foundation_scores, p.foundation_type, 75)
        expected_roof_life == Lookup(roof_material_expected_lifespans, p.roof_material, 20)
        roof_condition_score == calculate_age_score(p.roof_age, expected_roof_life)
        overall_structural_score ==
            RAdd(RAdd(RMul(building_age_score, Rat(4, 10)),
                      RMul(RInt(foundation_score), Rat(3, 10))),
                 RMul(roof_condition_score, Rat(3, 10)))
    IN  {[score |-> sc,
          components |-> ("Overall Building Age Factor" :> c1)
                         @@ ("Foundation Type" :> RInt(foundation_score))
                         @@ ("Roof Condition (Age/Material Adjusted)" :> c2)] :
            sc \in Round1(overall_structural_score),
            c1 \in Round1(building_age_score),
            c2 \in Round1(roof_condition_score)}

(***************************************************************************)
(* Property values.  address, city, state, property_type, roof_material    *)
(* and foundation_type are only compared or used as dictionary keys and    *)
(* are atomic strings; zip_code and last_inspection are indexed or parsed  *)
(* and are character sequences.                                            *)
(***************************************************************************)
Now0 == <<2026, 11, 6>>

BaseProperty ==
    [address |-> "12 Oak St", city |-> "Culpeper", state |-> "VA",
     zip_code |-> <<"2", "2", "7", "0", "1">>,
     year_built |-> 2000, square_footage |-> 1500, property_type |-> "Single Family",
     roof_material |-> "Asphalt Shingles", roof_age |-> 10,
     foundation_type |-> "Concrete Slab",
     hvac_age |-> 5, electrical_age |-> 15, plumbing_age |-> 20,
     last_inspection |-> NA, image_data |-> "None", documents |-> <<>>]

RoofMaterials == DOMAIN roof_material_expected_lifespans \cup {"Flat Roof", "Thatch"}
FoundationTypes == DOMAIN foundation_scores \cup {"Stilts"}

\* building ages: future year_built, the plateau edge of an 80-year life, the
\* breakpoints 40, 64, 80, 96 and the oldest year the form accepts (1800)
BuildingAgeSamples == {-1, 0, 8, 9, 21, 40, 41, 51, 64, 65, 80, 95, 96, 226}

(***************************************************************************)
(* Specification SpecStructural: one call of calculate_structural_score.   *)
(***************************************************************************)
InitStructural ==
    /\ today = Now0
    /\ \E a \in BuildingAgeSamples, mat \in RoofMaterials,
          f \in FoundationTypes, ra \in 0..MaxRoofAge :
          property_data = [BaseProperty EXCEPT !.year_built = today[1] - a,
                                               !.roof_material = mat,
                                               !.foundation_type = f,
                                               !.roof_age = ra]
    /\ args = NoArgs
    /\ pc = "start"
    /\ ret = NoValue
    /\ session_state = FreshSession
    /\ WeatherIdle

CallStructural ==
    /\ pc = "start"
    /\ property_data # NoProperty
    /\ \E r \in calculate_structural_score(property_data, today) : ret' = r
    /\ pc' = "calculate_structural_score"
    /\ UNCHANGED <<today, property_data, args, session_state, weather_vars>>

NextStructural == CallStructural

SpecStructural == InitStructural /\ [][NextStructural]_vars

RAbs(x) == [n |-> Abs(x.n), d |-> x.d]

\* C5: the structural score is 0.4 * age_score(current_year - year_built, 80)
\* + 0.3 * foundation_score + 0.3 * age_score(roof_age, expected_roof_life)
\* rounded to one decimal, with foundation scores 85/90/75/70 and 75 for any
\* other type, and the material's lifespan or 20 for an unknown material; a
\* score is returned for every categorical value.
C5_StructuralFormula ==
    pc = "calculate_structural_score" =>
        LET p == property_data
            f == CASE p.foundation_type = "Concrete Slab" -> 85
                   [] p.foundation_type = "Basement" -> 90
                   [] p.foundation_type = "Crawl Space" -> 75
                   [] p.foundation_type = "Pier & Beam" -> 70
                   [] OTHER -> 75
            life == CASE p.roof_material \in {"Asphalt Shingles", "Flat Roof (TPO/EPDM)"} -> 20
                      [] p.roof_material \in {"Metal", "Tile"} -> 50
                      [] p.roof_material = "Slate" -> 75
                      [] p.roof_material = "Wood" -> 25
                      [] p.roof_material = "Composite" -> 30
                      [] OTHER -> 20
            b == calculate_age_score(today[1] - p.year_built, 80)
            r == calculate_age_score(p.roof_age, life)
            \* ten times the unrounded score, as a fraction num/den
            num == 4 * b.n * r.d + 3 * f * b.d * r.d + 3 * r.n * b.d
            den == b.d * r.d
        IN  /\ "score" \in DOMAIN ret
            /\ 10 % ret.score.d = 0
            /\ 2 * Abs(ret.score.n * (10 \div ret.score.d) * den - num) <= den

\* C5 witness: a property with an unknown foundation type and an unknown roof
\* material, a roof past the plateau, has been scored.
C5_WitnessUnknownCategoricals ==
    /\ pc = "calculate_structural_score"
    /\ property_data.foundation_type \notin DOMAIN foundation_scores
    /\ property_data.roof_material \notin DOMAIN roof_material_expected_lifespans
    /\ property_data.roof_age = 15
    /\ today[1] - property_data.year_built = 41
    /\ "score" \in DOMAIN ret

(***************************************************************************)
(* PropertyHealthCalculator.calculate_systems_score                        *)
(***************************************************************************)
calculate_systems_score(p) ==
    LET hvac_score == calculate_age_score(p.hvac_age, 18)
        electrical_score == calculate_age_score(p.electrical_age, 35)
        plumbing_score == calculate_age_score(p.plumbing_age, 50)
        overall_score ==
            RAdd(RAdd(RMul(hvac_score, Rat(4, 10)), RMul(electrical_score, Rat(3, 10))),
                 RMul(plumbing_score, Rat(3, 10)))
    IN  {[score |-> sc,
          components |-> ("HVAC" :> c1) @@ ("Electrical" :> c2) @@ ("Plumbing" :> c3)] :
            sc \in Round1(overall_score), c1 \in Round1(hvac_score),
            c2 \in Round1(electrical_score), c3 \in Round1(plumbing_score)}

(***************************************************************************)
(* PropertyHealthCalculator.calculate_safety_score                         *)
(***************************************************************************)
\* the inspection test is >= 5 * 365 instead of > 5 * 365
calculate_safety_score_geq(p, now) ==
    LET age == now[1] - p.year_built
        s1 == 90 - (IF age > 50 THEN 15 ELSE IF age > 30 THEN 7 ELSE 0)
        s2 == s1 - (IF p.electrical_age > 30 THEN 5 ELSE 0)
        base_score ==
            IF p.last_inspection = NA /\ age > 20 THEN s2 - 5
            ELSE IF p.last_inspection # NA
            THEN LET parsed == strptime(p.last_inspection)
                 IN  IF parsed.ok
                     THEN IF toordinal(now) - toordinal(parsed.date) >= 5 * 365
                          THEN s2 - 5 ELSE s2
                     ELSE s2
            ELSE s2
        floored == RMax(RInt(0), RInt(base_score))
    IN  {[score |-> sc, components |-> ("General Safety Factors" :> c)] :
            sc \in Round1(floored), c \in Round1(floored)}

\* a string that does not parse is handled like "N/A"
calculate_safety_score_absent(p, now) ==
    LET age == now[1] - p.year_built
        s1 == 90 - (IF age > 50 THEN 15 ELSE IF age > 30 THEN 7 ELSE 0)
        s2 == s1 - (IF p.electrical_age > 30 THEN 5 ELSE 0)
        base_score ==
            IF p.last_inspection = NA /\ age > 20 THEN s2 - 5
            ELSE IF p.last_inspection # NA
            THEN LET parsed == strptime(p.last_inspection)
                 IN  IF parsed.ok
                     THEN IF toordinal(now) - toordinal(parsed.date) > 5 * 365
                          THEN s2 - 5 ELSE s2
                     ELSE IF age > 20 THEN s2 - 5 ELSE s2
            ELSE s2
        floored == RMax(RInt(0), RInt(base_score))
    IN  {[score |-> sc, components |-> ("General Safety Factors" :> c)] :
            sc \in Round1(floored), c \in Round1(floored)}

calculate_safety_score(p, now) ==
    LET age == now[1] - p.year_built
        s1 == 90 - (IF age > 50 THEN 15 ELSE IF age > 30 THEN 7 ELSE 0)
        s2 == s1 - (IF p.electrical_age > 30 THEN 5 ELSE 0)
        base_score ==
            IF p.last_inspection = NA /\ age > 20 THEN s2 - 5
            ELSE IF p.last_inspection # NA
            THEN LET parsed == strptime(p.last_inspection)
                 IN  IF parsed.ok
                     THEN IF toordinal(now) - toordinal(parsed.date) > 5 * 365
                          THEN s2 - 5 ELSE s2
                     ELSE s2                     \* except ValueError: pass
            ELSE s2
        floored == RMax(RInt(0), RInt(base_score))
    IN  {[score |-> sc, components |-> ("General Safety Factors" :> c)] :
            sc \in Round1(floored), c \in Round1(floored)}

(***************************************************************************)
(* PropertyHealthCalculator.calculate_environmental_score                  *)
(***************************************************************************)
\* a base score of 90 instead of 80
calculate_environmental_score_90(p) ==
    LET base_score == RInt(90)
    IN  {[score |-> sc, components |-> ("General Environmental" :> c)] :
            sc \in Round1(base_score), c \in Round1(base_score)}

calculate_environmental_score(p) ==
    LET base_score == RInt(80)
    IN  {[score |-> sc, components |-> ("General Environmental" :> c)] :
            sc \in Round1(base_score), c \in Round1(base_score)}

(***************************************************************************)
(* PropertyHealthCalculator.calculate_overall_score                        *)
(***************************************************************************)
\* the systems weight is applied to the structural score as well
calculate_overall_score_weights(p, now) ==
    UNION {
        LET overall ==
                RAdd(RAdd(RMul(structural.score, weights.systems),
                          RMul(systems.score, weights.systems)),
                     RAdd(RMul(safety.score, weights.safety),
                          RMul(environmental.score, weights.environmental)))
        IN  {[overall_score |-> o,
              category_scores |-> [Structural |-> structural, Systems |-> systems,
                                   Safety |-> safety, Environmental |-> environmental]] :
                o \in Round1(overall)} :
        structural \in calculate_structural_score(p, now),
        systems \in calculate_systems_score(p),
        safety \in calculate_safety_score(p, now),
        environmental \in calculate_environmental_score(p)}

calculate_overall_score(p, now) ==
    UNION {
        LET overall ==
                RAdd(RAdd(RMul(structural.score, weights.structural),
                          RMul(systems.score, weights.systems)),
                     RAdd(RMul(safety.score, weights.safety),
                          RMul(environmental.score, weights.environmental)))
        IN  {[overall_score |-> o,
              category_scores |-> [Structural |-> structural, Systems |-> systems,
                                   Safety |-> safety, Environmental |-> environmental]] :
                o \in Round1(overall)} :
        structural \in calculate_structural_score(p, now),
        systems \in calculate_systems_score(p),
        safety \in calculate_safety_score(p, now),
        environmental \in calculate_environmental_score(p)}

(***************************************************************************)
(* Specification SpecSafety: one call of calculate_safety_score.           *)
(***************************************************************************)
\* today - timedelta(days = k), for dates within YearsBack years of today
DateMinusDays(dt, k) ==
    CHOOSE c \in {x \in ((dt[1] - YearsBack)..(dt[1] + 1)) \X (1..12) \X (1..31) :
                    x[3] <= DaysInMonth(x[1], x[2])} :
        toordinal(c) = toordinal(dt) - k

Todays == {Now0, <<2028, 2, 29>>}

\* age of the inspection in days: today, around the 1825-day limit, in the
\* future, and one leap cycle back
InspectionAgeSamples == {0, 1, 1824, 1825, 1826, 1461, 2000, -30}

\* strings that are neither "N/A" nor a date
MalformedInspections ==
    { <<>>,
      <<"n", "/", "a">>,
      <<"2", "0", "2", "1", "-", "1", "3", "-", "0", "1">>,
      <<"2", "0", "1", "9", "-", "0", "2", "-", "2", "9">>,
      <<"2", "0", "1", "5", "/", "0", "6", "/", "0", "1">>,
      <<"1", "5", "-", "0", "6", "-", "0", "1">>,
      <<"2", "0", "1", "5", "-", "0", "6">> }

\* dates as the forms write them, and one date written without zero padding
InspectionStrings(now) ==
    {NA} \cup MalformedInspections
    \cup {strftime(DateMinusDays(now, k)) : k \in InspectionAgeSamples}
    \cup {<<"2", "0", "1", "5", "-", "6", "-", "1">>}

SafetyBuildingAges == {-1, 0, 20, 21, 30, 31, 50, 51, 226}
SafetyElectricalAges == {0, 30, 31, 100}

InitSafety ==
    /\ today \in Todays
    /\ \E a \in SafetyBuildingAges, ea \in SafetyElectricalAges,
          li \in InspectionStrings(today) :
          property_data = [BaseProperty EXCEPT !.year_built = today[1] - a,
                                               !.electrical_age = ea,
                                               !.last_inspection = li]
    /\ args = NoArgs
    /\ pc = "start"
    /\ ret = NoValue
    /\ session_state = FreshSession
    /\ WeatherIdle

CallSafety ==
    /\ pc = "start"
    /\ property_data # NoProperty
    /\ \E r \in calculate_safety_score(property_data, today) : ret' = r
    /\ pc' = "calculate_safety_score"
    /\ UNCHANGED <<today, property_data, args, session_state, weather_vars>>

NextSafety == CallSafety

SpecSafety == InitSafety /\ [][NextSafety]_vars

BuildingAge == today[1] - property_data.year_built
Parsed == strptime(property_data.last_inspection)
InspectionDaysOld == toordinal(today) - toordinal(Parsed.date)
IsMalformed == property_data.last_inspection # NA /\ ~Parsed.ok

\* C6: the safety score starts at 90 and loses 15 for a building age > 50,
\* otherwise 7 for an age > 30; 5 for electrical_age > 30; 5 when
\* last_inspection is "N/A" and the age is > 20, or when it is a valid date
\* more than 1825 days before today; floored at 0.  An inspection exactly
\* 1825 days old, or an age of exactly 20, 30 or 50, brings no penalty.
C6_SafetyRules ==
    (pc = "calculate_safety_score" /\ ~IsMalformed) =>
        LET agePenalty == IF BuildingAge >= 51 THEN 15
                          ELSE IF BuildingAge >= 31 THEN 7 ELSE 0
            elecPenalty == IF property_data.electrical_age >= 31 THEN 5 ELSE 0
            inspPenalty ==
                IF property_data.last_inspection = NA
                THEN (IF BuildingAge >= 21 THEN 5 ELSE 0)
                ELSE (IF InspectionDaysOld >= 1826 THEN 5 ELSE 0)
            expected == 90 - agePenalty - elecPenalty - inspPenalty
        IN  ret.score = RInt(IF expected < 0 THEN 0 ELSE expected)

\* C6 witness: a 50-year-old building whose inspection is exactly 1825 days
\* old and whose electrical system is 30 years old scored 83 (only the
\* 7 points for an age over 30).
C6_WitnessBoundaries ==
    /\ pc = "calculate_safety_score"
    /\ BuildingAge = 50 /\ property_data.electrical_age = 30
    /\ Parsed.ok /\ InspectionDaysOld = 1825
    /\ ret.score = RInt(83)

ScoreWithNA ==
    calculate_safety_score([property_data EXCEPT !.last_inspection = NA], today)

\* C7 as stated: a malformed last_inspection is scored exactly as the same
\* property with last_inspection = "N/A", for every building age.
C7_MalformedScoredAsNA ==
    (pc = "calculate_safety_score" /\ IsMalformed) => ret \in ScoreWithNA

\* C7 amended: a malformed last_inspection raises no error and brings no
\* inspection penalty: the property is scored as with "N/A" when the
\* building age is at most 20, and 5 points above the "N/A" score when the
\* building age is over 20.
C7_MalformedNoPenalty ==
    (pc = "calculate_safety_score" /\ IsMalformed) =>
        /\ DOMAIN ret = {"score", "components"}
        /\ \A na \in ScoreWithNA :
              ret.score = RAdd(na.score, RInt(IF BuildingAge > 20 THEN 5 ELSE 0))

\* C7 witness: a building older than 20 years with a string that does not
\* parse has been scored.
C7_WitnessMalformedOld ==
    /\ pc = "calculate_safety_score"
    /\ IsMalformed /\ BuildingAge = 51 /\ property_data.electrical_age = 31
    /\ ret.score = RInt(70)

(***************************************************************************)
(* Specification SpecOverall: one call of calculate_overall_score.         *)
(***************************************************************************)
OverallBuildingAges == {-1, 0, 25, 51, 226}
OverallRoofMaterials == {"Metal", "Asphalt Shingles", "Thatch"}
OverallFoundations == {"Basement", "Pier & Beam", "Stilts"}
OverallRoofAges == {0, 12, 19, 40}
OverallHvacAges == {0, 5, 11, 16, 30}
OverallElectricalAges == {0, 20, 31, 50}
OverallPlumbingAges == {0, 30, 45, 60}
OverallInspections(now) ==
    {NA, strftime(now), strftime(DateMinusDays(now, 2000)), <<"n", "/", "a">>}

InitOverall ==
    /\ today = Now0
    /\ \E a \in OverallBuildingAges, mat \in OverallRoofMaterials,
          f \in OverallFoundations, ra \in OverallRoofAges, ha \in OverallHvacAges,
          ea \in OverallElectricalAges, pa \in OverallPlumbingAges,
          li \in OverallInspections(today) :
          property_data = [BaseProperty EXCEPT !.year_built = today[1] - a,
                                               !.roof_material = mat,
                                               !.foundation_type = f,
                                               !.roof_age = ra,
                                               !.hvac_age = ha,
                                               !.electrical_age = ea,
                                               !.plumbing_age = pa,
                                               !.last_inspection = li]
    /\ args = NoArgs
    /\ pc = "start"
    /\ ret = NoValue
    /\ session_state = FreshSession
    /\ WeatherIdle

CallOverall ==
    /\ pc = "start"
    /\ property_data # NoProperty
    /\ \E r \in calculate_overall_score(property_data, today) : ret' = r
    /\ pc' = "calculate_overall_score"
    /\ UNCHANGED <<today, property_data, args, session_state, weather_vars>>

NextOverall == CallOverall

SpecOverall == InitOverall /\ [][NextOverall]_vars

\* C4: overall_score lies in [0, 100] and differs by at most 0.1 from
\* 0.3 * Structural + 0.4 * Systems + 0.2 * Safety + 0.1 * Environmental of
\* the rounded category scores returned in category_scores.
C4_OverallWeightedSum ==
    pc = "calculate_overall_score" =>
        LET cs == ret.category_scores
            sum == RAdd(RAdd(RMul(Rat(3, 10), cs.Structural.score),
                             RMul(Rat(4, 10), cs.Systems.score)),
                        RAdd(RMul(Rat(2, 10), cs.Safety.score),
                             RMul(Rat(1, 10), cs.Environmental.score)))
        IN  /\ RLeq(RInt(0), ret.overall_score)
            /\ RLeq(ret.overall_score, RInt(100))
            /\ RLeq(RAbs(RSub(ret.overall_score, sum)), Rat(1, 10))

\* C4 witness: a property with every component past its life has been scored,
\* and its overall score is the weighted sum 0.3*21.0 + 0.4*0.0 + 0.2*65.0 +
\* 0.1*80.0 = 27.3 of its category scores.
C4_WitnessOldProperty ==
    /\ pc = "calculate_overall_score"
    /\ property_data.hvac_age = 30 /\ property_data.electrical_age = 50
    /\ property_data.plumbing_age = 60
    /\ ret.category_scores.Systems.score = RInt(0)
    /\ ret.category_scores.Safety.score = RInt(65)
    /\ ret.category_scores.Structural.score = RInt(21)
    /\ ret.overall_score = Rat(273, 10)

(***************************************************************************)
(* PropertyHealthCalculator.generate_maintenance_schedule.  next_due is    *)
(* the day number of current_date + timedelta(days = k); list.sort is a    *)
(* stable sort on the key (priority rank, next_due).                       *)
(***************************************************************************)
Max(a, b) == IF a >= b THEN a ELSE b

Task(task, frequency, next_due, priority, estimated_cost, description) ==
    [task |-> task, frequency |-> frequency, next_due |-> next_due,
     priority |-> priority, estimated_cost |-> estimated_cost,
     description |-> description]

PriorityRank(priority) ==
    CASE priority = "high" -> 0 [] priority = "important" -> 1 [] priority = "routine" -> 2

SortKeyLeq(x, y) ==
    \/ PriorityRank(x.priority) < PriorityRank(y.priority)
    \/ PriorityRank(x.priority) = PriorityRank(y.priority) /\ x.next_due <= y.next_due

\* x goes behind every element whose key is not greater than its own
InsertStable(sorted, x) ==
    LET k == Cardinality({i \in 1..Len(sorted) : SortKeyLeq(sorted[i], x)})
    IN  SubSeq(sorted, 1, k) \o <<x>> \o SubSeq(sorted, k + 1, Len(sorted))

RECURSIVE SortStable(_)
SortStable(seq) ==
    IF seq = <<>> THEN <<>>
    ELSE InsertStable(SortStable(SubSeq(seq, 1, Len(seq) - 1)), seq[Len(seq)])

\* the HVAC branch with the threshold at the whole expected life (18)
\* instead of 18 * 0.8
HvacTasks_whole_life(p, current_date) ==
    IF p.hvac_age <= 1
    THEN <<Task("HVAC Filter Check/Replacement", "Every 3 months", current_date + 90,
                "routine",
                Max(20, get_local_cost_estimate("hvac_service", p.zip_code).min \div 10),
                "Check and replace air filters as needed.")>>
    ELSE IF p.hvac_age <= 18
    THEN <<Task("HVAC Annual Service", "Annually", current_date + 365, "important",
                get_local_cost_estimate("hvac_service", p.zip_code).avg,
                "Professional tune-up and inspection.")>>
    ELSE <<Task("HVAC Replacement Planning", "Within 1-2 years", current_date + 365,
                "high",
                get_local_cost_estimate("hvac_replacement", p.zip_code).avg,
                "Budget and plan for HVAC system replacement.")>>

\* if / elif / else on hvac_age: exactly one append
HvacTasks(p, current_date) ==
    IF p.hvac_age <= 1
    THEN <<Task("HVAC Filter Check/Replacement", "Every 3 months", current_date + 90,
                "routine",
                Max(20, get_local_cost_estimate("hvac_service", p.zip_code).min \div 10),
                "Check and replace air filters as needed.")>>
    ELSE IF RLeq(RInt(p.hvac_age), RMul(RInt(18), Rat(8, 10)))
    THEN <<Task("HVAC Annual Service", "Annually", current_date + 365, "important",
                get_local_cost_estimate("hvac_service", p.zip_code).avg,
                "Professional tune-up and inspection.")>>
    ELSE <<Task("HVAC Replacement Planning", "Within 1-2 years", current_date + 365,
                "high",
                get_local_cost_estimate("hvac_replacement", p.zip_code).avg,
                "Budget and plan for HVAC system replacement.")>>

RoofTasks(p, current_date) ==
    IF p.roof_age > 10
    THEN <<Task("Roof Inspection (detailed for age)", "Annually", current_date + 365,
                "important",
                Max(150, get_local_cost_estimate("roof_repair", p.zip_code).min),
                "Inspect roof for wear, potential leaks, especially if older than 10 years.")>>
    ELSE <<>>

\* the second electrical rule as an elif of the first: the two are exclusive
ElectricalTasks_exclusive(p, current_date) ==
    IF p.electrical_age > 30
    THEN <<Task("Electrical System Inspection", "Consider within 1 year",
                current_date + 365, "important",
                Max(150, get_local_cost_estimate("electrical_panel", p.zip_code).min \div 5),
                "Inspect aging electrical panel and system, especially if over 30 years old.")>>
    ELSE IF RLt(RMul(RInt(35), Rat(9, 10)), RInt(p.electrical_age))
    THEN <<Task("Consider Electrical Panel Upgrade", "Within 2-3 years",
                current_date + 730, "high",
                get_local_cost_estimate("electrical_panel", p.zip_code).avg,
                "Plan for upgrading an old electrical panel if original.")>>
    ELSE <<>>

\* two independent ifs on electrical_age
ElectricalTasks(p, current_date) ==
    (IF p.electrical_age > 30
     THEN <<Task("Electrical System Inspection", "Consider within 1 year",
                 current_date + 365, "important",
                 Max(150, get_local_cost_estimate("electrical_panel", p.zip_code).min \div 5),
                 "Inspect aging electrical panel and system, especially if over 30 years old.")>>
     ELSE <<>>)
    \o
    (IF RLt(RMul(RInt(35), Rat(9, 10)), RInt(p.electrical_age))
     THEN <<Task("Consider Electrical Panel Upgrade", "Within 2-3 years",
                 current_date + 730, "high",
                 get_local_cost_estimate("electrical_panel", p.zip_code).avg,
                 "Plan for upgrading an old electrical panel if original.")>>
     ELSE <<>>)

\* two independent ifs on plumbing_age
PlumbingTasks(p, current_date) ==
    (IF p.plumbing_age > 8
     THEN <<Task("Water Heater Check/Service", "Annually if >8yrs old",
                 current_date + 365, "important",
                 Max(100, get_local_cost_estimate("water_heater", p.zip_code).min \div 10),
                 "Inspect water heater. Plan for replacement if near end-of-life.")>>
     ELSE <<>>)
    \o
    (IF RLt(RMul(RInt(50), Rat(8, 10)), RInt(p.plumbing_age))
     THEN <<Task("Major Plumbing Inspection (Pipes)", "Consider within 2 years",
                 current_date + 730, "high",
                 get_local_cost_estimate("plumbing_repair", p.zip_code).avg,
                 "Inspect for potential major plumbing updates (pipes, main lines) if original.")>>
     ELSE <<>>)

\* the spring gutter cleaning due on a calendar day (1 April 2027) instead
\* of 120 days after the call
SeasonalTasks_calendar(p, current_date) ==
    LET cost_est_gutter == get_local_cost_estimate("gutter_replacement", p.zip_code)
        gutter_clean_cost ==
            Max(150, IF cost_est_gutter.min > 0 THEN cost_est_gutter.min \div 10 ELSE 150)
    IN  <<Task("Gutter Cleaning (Spring)", "Annually (Spring)", toordinal(<<2027, 4, 1>>),
               "routine", gutter_clean_cost, "Clean gutters and downspouts after winter."),
          Task("Gutter Cleaning (Fall)", "Annually (Fall)", current_date + 300,
               "routine", gutter_clean_cost, "Clean gutters and downspouts before winter."),
          Task("Exterior Caulking & Sealing Check", "Annually", current_date + 270,
               "routine", 100,
               "Check windows, doors, and siding for gaps to prevent drafts and water intrusion."),
          Task("Smoke & CO Detector Test/Battery Change", "Semi-Annually",
               current_date + 180, "important", 10,
               "Test all detectors and replace batteries as needed.")>>

\* the exterior caulking check is rated "important" instead of "routine"
SeasonalTasks_caulking_important(p, current_date) ==
    LET cost_est_gutter == get_local_cost_estimate("gutter_replacement", p.zip_code)
        gutter_clean_cost ==
            Max(150, IF cost_est_gutter.min > 0 THEN cost_est_gutter.min \div 10 ELSE 150)
    IN  <<Task("Gutter Cleaning (Spring)", "Annually (Spring)", current_date + 120,
               "routine", gutter_clean_cost, "Clean gutters and downspouts after winter."),
          Task("Gutter Cleaning (Fall)", "Annually (Fall)", current_date + 300,
               "routine", gutter_clean_cost, "Clean gutters and downspouts before winter."),
          Task("Exterior Caulking & Sealing Check", "Annually", current_date + 270,
               "important", 100,
               "Check windows, doors, and siding for gaps to prevent drafts and water intrusion."),
          Task("Smoke & CO Detector Test/Battery Change", "Semi-Annually",
               current_date + 180, "important", 10,
               "Test all detectors and replace batteries as needed.")>>

\* the four unconditional appends
SeasonalTasks(p, current_date) ==
    LET cost_est_gutter == get_local_cost_estimate("gutter_replacement", p.zip_code)
        gutter_clean_cost ==
            Max(150, IF cost_est_gutter.min > 0 THEN cost_est_gutter.min \div 10 ELSE 150)
    IN  <<Task("Gutter Cleaning (Spring)", "Annually (Spring)", current_date + 120,
               "routine", gutter_clean_cost, "Clean gutters and downspouts after winter."),
          Task("Gutter Cleaning (Fall)", "Annually (Fall)", current_date + 300,
               "routine", gutter_clean_cost, "Clean gutters and downspouts before winter."),
          Task("Exterior Caulking & Sealing Check", "Annually", current_date + 270,
               "routine", 100,
               "Check windows, doors, and siding for gaps to prevent drafts and water intrusion."),
          Task("Smoke & CO Detector Test/Battery Change", "Semi-Annually",
               current_date + 180, "important", 10,
               "Test all detectors and replace batteries as needed.")>>

\* the tasks in the order the method appends them
ScheduleAppended(p, now) ==
    LET current_date == toordinal(now)
    IN  HvacTasks(p, current_date) \o RoofTasks(p, current_date)
        \o ElectricalTasks(p, current_date) \o PlumbingTasks(p, current_date)
        \o SeasonalTasks(p, current_date)

\* the final schedule.sort(...) is missing
generate_maintenance_schedule_unsorted(p, now) == ScheduleAppended(p, now)

generate_maintenance_schedule(p, now) == SortStable(ScheduleAppended(p, now))

(***************************************************************************)
(* Specification SpecSchedule: one call of generate_maintenance_schedule.  *)
(***************************************************************************)
ScheduleHvacAges == {0, 1, 2, 14, 15, 40}
ScheduleRoofAges == {0, 10, 11}
ScheduleElectricalAges == {0, 30, 31, 32}
SchedulePlumbingAges == {0, 8, 9, 40, 41}
ScheduleZips ==
    {<<"2", "2", "7", "0", "1">>, <<"1", "0", "0", "0", "1">>, <<"9", "8", "1", "0", "1">>,
     <<>>, <<"x">>}

InitSchedule ==
    /\ today \in Todays
    /\ \E ha \in ScheduleHvacAges, ra \in ScheduleRoofAges,
          ea \in ScheduleElectricalAges, pa \in SchedulePlumbingAges,
          z \in ScheduleZips :
          property_data = [BaseProperty EXCEPT !.hvac_age = ha, !.roof_age = ra,
                                               !.electrical_age = ea,
                                               !.plumbing_age = pa, !.zip_code = z]
    /\ args = NoArgs
    /\ pc = "start"
    /\ ret = NoValue
    /\ session_state = FreshSession
    /\ WeatherIdle

CallSchedule ==
    /\ pc = "start"
    /\ property_data # NoProperty
    /\ ret' = generate_maintenance_schedule(property_data, today)
    /\ pc' = "generate_maintenance_schedule"
    /\ UNCHANGED <<today, property_data, args, session_state, weather_vars>>

NextSchedule == CallSchedule

SpecSchedule == InitSchedule /\ [][NextSchedule]_vars

\* C10: in the returned schedule no "high" task comes after an "important" or
\* "routine" task, no "important" task comes after a "routine" task, and
\* within one priority next_due never decreases.
C10_ScheduleOrdered ==
    pc = "generate_maintenance_schedule" =>
        \A i, j \in 1..Len(ret) :
            i < j =>
                /\ ~(ret[j].priority = "high" /\ ret[i].priority \in {"important", "routine"})
                /\ ~(ret[j].priority = "important" /\ ret[i].priority = "routine")
                /\ (ret[i].priority = ret[j].priority => ret[i].next_due <= ret[j].next_due)

\* C10 witness: a schedule with all ten tasks, three of them high with
\* different due dates, has been returned with the high tasks first.
C10_WitnessFullSchedule ==
    /\ pc = "generate_maintenance_schedule"
    /\ Len(ret) = 10
    /\ ret[1].task = "HVAC Replacement Planning"
    /\ ret[2].priority = "high" /\ ret[2].next_due > ret[1].next_due
    /\ ret[3].priority = "high"
    /\ ret[4].priority = "important"
    /\ ret[10].priority = "routine"

(***************************************************************************)
(* Task categories of the schedule, by task name.                          *)
(***************************************************************************)
HvacNames ==
    {"HVAC Filter Check/Replacement", "HVAC Annual Service", "HVAC Replacement Planning"}
RoofNames == {"Roof Inspection (detailed for age)"}
ElectricalNames == {"Electrical System Inspection", "Consider Electrical Panel Upgrade"}
PlumbingNames == {"Water Heater Check/Service", "Major Plumbing Inspection (Pipes)"}

ScheduleReturned == pc = "generate_maintenance_schedule"

\* positions of the returned schedule holding a task with one of the names
TasksNamed(names) == {i \in 1..Len(ret) : ret[i].task \in names}

HasTask(name) == TasksNamed({name}) # {}

\* C11: the returned schedule holds exactly one HVAC task: the routine filter
\* check when hvac_age <= 1, the important annual service when
\* 1 < hvac_age <= 14.4, the high-priority replacement planning otherwise.
C11_ExactlyOneHvacTask ==
    ScheduleReturned =>
        /\ Cardinality(TasksNamed(HvacNames)) = 1
        /\ \A i \in TasksNamed(HvacNames) :
              LET a == property_data.hvac_age
              IN  IF a <= 1
                  THEN /\ ret[i].task = "HVAC Filter Check/Replacement"
                       /\ ret[i].priority = "routine"
                  ELSE IF 10 * a <= 144
                  THEN /\ ret[i].task = "HVAC Annual Service"
                       /\ ret[i].priority = "important"
                  ELSE /\ ret[i].task = "HVAC Replacement Planning"
                       /\ ret[i].priority = "high"

\* C11 witness: the first whole age above 14.4 got the replacement task, and
\* it is the only HVAC task of the schedule.
C11_WitnessJustOverEightyPercent ==
    /\ ScheduleReturned
    /\ property_data.hvac_age = 15
    /\ HasTask("HVAC Replacement Planning")
    /\ ~HasTask("HVAC Annual Service")

\* C12 as stated: at most one task for each of the HVAC, roof, electrical and
\* plumbing/water-heater categories.
C12_AtMostOnePerCategory ==
    ScheduleReturned =>
        /\ Cardinality(TasksNamed(HvacNames)) <= 1
        /\ Cardinality(TasksNamed(RoofNames)) <= 1
        /\ Cardinality(TasksNamed(ElectricalNames)) <= 1
        /\ Cardinality(TasksNamed(PlumbingNames)) <= 1

\* C12 amended: each threshold rule fires 0 or 1 times and independently of
\* the other rule of its category. Every task name occurs at most once; the
\* roof inspection is present iff roof_age > 10, the electrical inspection
\* iff electrical_age > 30, the panel upgrade iff electrical_age > 31.5, the
\* water-heater check iff plumbing_age > 8 and the pipe inspection iff
\* plumbing_age > 40; so the electrical and the plumbing category hold up to
\* two tasks each.
C12_OneTaskPerRule ==
    ScheduleReturned =>
        LET p == property_data
        IN  /\ \A i, j \in 1..Len(ret) : ret[i].task = ret[j].task => i = j
            /\ HasTask("Roof Inspection (detailed for age)") <=> p.roof_age > 10
            /\ HasTask("Electrical System Inspection") <=> p.electrical_age > 30
            /\ HasTask("Consider Electrical Panel Upgrade") <=> 10 * p.electrical_age > 315
            /\ HasTask("Water Heater Check/Service") <=> p.plumbing_age > 8
            /\ HasTask("Major Plumbing Inspection (Pipes)") <=> p.plumbing_age > 40
            /\ Cardinality(TasksNamed(ElectricalNames)) <= 2
            /\ Cardinality(TasksNamed(PlumbingNames)) <= 2

\* C12 witness: a 32-year-old electrical system and 41-year-old plumbing got
\* two tasks each.
C12_WitnessTwoPerCategory ==
    /\ ScheduleReturned
    /\ property_data.electrical_age = 32
    /\ property_data.plumbing_age = 41
    /\ Cardinality(TasksNamed(ElectricalNames)) = 2
    /\ Cardinality(TasksNamed(PlumbingNames)) = 2

(***************************************************************************)
(* Specification SpecScheduleRepeat: generate_maintenance_schedule is      *)
(* called again and again on one Property of the session (every render of  *)
(* the health tab calls it) while the clock moves on.  args holds the      *)
(* clock reading of the latest call and the number of calls made.          *)
(***************************************************************************)
MaxCalls == 3

ClockDates == {Now0, <<2026, 11, 7>>, <<2027, 3, 1>>, <<2028, 2, 29>>}

RepeatHvacAges == {1, 14, 15}
RepeatRoofAges == {10, 11}
RepeatElectricalAges == {30, 31, 32}
RepeatPlumbingAges == {8, 41}
RepeatZips == {<<"2", "2", "7", "0", "1">>, <<"9", "8", "1", "0", "1">>}

\* a record as the maintenance form creates it
MaintenanceRecord(date, category, description, cost, contractor, urgency, property_address) ==
    [date |-> date, category |-> category, description |-> description, cost |-> cost,
     contractor |-> contractor, urgency |-> urgency, property_address |-> property_address]

InitScheduleRepeat ==
    /\ today = Now0
    /\ \E ha \in RepeatHvacAges, ra \in RepeatRoofAges, ea \in RepeatElectricalAges,
          pa \in RepeatPlumbingAges, z \in RepeatZips :
          property_data = [BaseProperty EXCEPT !.hvac_age = ha, !.roof_age = ra,
                                               !.electrical_age = ea,
                                               !.plumbing_age = pa, !.zip_code = z]
    /\ args = [current_date |-> today, calls |-> 0]
    /\ pc = "start"
    /\ ret = NoValue
    /\ session_state =
          [FreshSession EXCEPT
              !.properties = <<property_data>>,
              !.maintenance_records =
                  <<MaintenanceRecord(strftime(today), "HVAC", "filter changed", 40, "",
                                      "Routine", property_data.address)>>]
    /\ WeatherIdle

CallScheduleAgain ==
    /\ args.calls < MaxCalls
    /\ ret' = generate_maintenance_schedule(property_data, today)
    /\ args' = [current_date |-> today, calls |-> args.calls + 1]
    /\ pc' = "generate_maintenance_schedule"
    /\ UNCHANGED <<today, property_data, session_state, weather_vars>>

ClockAdvances ==
    /\ \E d \in ClockDates : toordinal(d) > toordinal(today) /\ today' = d
    /\ UNCHANGED <<property_data, args, pc, ret, session_state, weather_vars>>

NextScheduleRepeat == CallScheduleAgain \/ ClockAdvances

SpecScheduleRepeat == InitScheduleRepeat /\ [][NextScheduleRepeat]_vars

\* the same tasks in the same order, each due the same number of days after
\* its own call time
SameTasksShifted(s1, t1, s2, t2) ==
    /\ Len(s1) = Len(s2)
    /\ \A i \in 1..Len(s1) :
          /\ s1[i].task = s2[i].task
          /\ s1[i].priority = s2[i].priority
          /\ s1[i].frequency = s2[i].frequency
          /\ s1[i].estimated_cost = s2[i].estimated_cost
          /\ s1[i].next_due - t1 = s2[i].next_due - t2

\* C13: a call of generate_maintenance_schedule changes neither the Property
\* nor the property list nor the maintenance records, and two consecutive
\* calls on the same Property, whatever the time between them, return the
\* same tasks in the same order with every next_due at the same day offset
\* from the call's own current time.
C13_ScheduleRepeatable ==
    [][/\ property_data' = property_data
       /\ session_state' = session_state
       /\ (pc = "generate_maintenance_schedule" /\ pc' = "generate_maintenance_schedule")
            => SameTasksShifted(ret, toordinal(args.current_date),
                                ret', toordinal(args'.current_date))]_vars

\* C13 witness: the second call was made 846 days after the first one, over
\* a leap day, and returned the full schedule of ten tasks.
C13_WitnessSecondCallLater ==
    /\ pc = "generate_maintenance_schedule"
    /\ args.calls = 2
    /\ args.current_date = <<2028, 2, 29>>
    /\ Len(ret) = 10
    /\ ret[1].next_due = toordinal(<<2028, 2, 29>>) + 365

(***************************************************************************)
(* Specification SpecTotal: one call of one of the four scoring methods or *)
(* of the schedule generator on a Property at the edges of its domain:     *)
(* unknown or empty categorical values, all ages 0, a year_built after the *)
(* current year, an empty or unknown ZIP, last_inspection "N/A", empty or  *)
(* malformed.                                                              *)
(***************************************************************************)
EdgeRoofMaterials == {"Metal", "Thatch", ""}
EdgeFoundations == {"Basement", "Stilts", ""}
EdgeYearsBuilt(now) == {now[1] + 1, now[1], 2000, 1800}
EdgeZips ==
    {<<>>, <<"x">>, <<"0", "0", "0", "0", "0">>, <<"2", "2", "7", "0", "1">>}
EdgeInspections(now) ==
    {NA, <<>>, strftime(now), <<"2", "0", "2", "1", "-", "1", "3", "-", "0", "1">>}
\* <<roof_age, hvac_age, electrical_age, plumbing_age>>
EdgeAges == {<<0, 0, 0, 0>>, <<10, 5, 15, 20>>, <<100, 50, 100, 100>>}

InitTotal ==
    /\ today \in Todays
    /\ \E rm \in EdgeRoofMaterials, ft \in EdgeFoundations, yb \in EdgeYearsBuilt(today),
          z \in EdgeZips, li \in EdgeInspections(today), ages \in EdgeAges :
          property_data = [BaseProperty EXCEPT !.roof_material = rm,
                                               !.foundation_type = ft,
                                               !.year_built = yb, !.zip_code = z,
                                               !.last_inspection = li,
                                               !.roof_age = ages[1], !.hvac_age = ages[2],
                                               !.electrical_age = ages[3],
                                               !.plumbing_age = ages[4]]
    /\ args = NoArgs
    /\ pc = "start"
    /\ ret = NoValue
    /\ session_state = FreshSession
    /\ WeatherIdle

CallSystems ==
    /\ pc = "start"
    /\ property_data # NoProperty
    /\ \E r \in calculate_systems_score(property_data) : ret' = r
    /\ pc' = "calculate_systems_score"
    /\ UNCHANGED <<today, property_data, args, session_state, weather_vars>>

NextTotal == CallStructural \/ CallSystems \/ CallSafety \/ CallOverall \/ CallSchedule

SpecTotal == InitTotal /\ [][NextTotal]_vars

InScoreRange(x) == RLeq(RInt(0), x) /\ RLeq(x, RInt(100))

\* the documented defaults of the two categorical lookups
DocumentedFoundationScore ==
    IF property_data.foundation_type \in DOMAIN foundation_scores
    THEN foundation_scores[property_data.foundation_type] ELSE 75
DocumentedRoofLife ==
    IF property_data.roof_material \in DOMAIN roof_material_expected_lifespans
    THEN roof_material_expected_lifespans[property_data.roof_material] ELSE 20

StructuralUsesDefaults(structural) ==
    /\ InScoreRange(structural.score)
    /\ structural.components["Foundation Type"] = RInt(DocumentedFoundationScore)
    /\ structural.components["Roof Condition (Age/Material Adjusted)"]
          \in Round1(calculate_age_score(property_data.roof_age, DocumentedRoofLife))

\* a ZIP that is neither a key of regional_multipliers nor starts with one
ZipUnknown ==
    /\ property_data.zip_code \notin DOMAIN regional_multipliers
    /\ \/ property_data.zip_code = <<>>
       \/ <<property_data.zip_code[1]>> \notin DOMAIN regional_multipliers

\* C14: on every such Property each of calculate_structural_score,
\* calculate_systems_score, calculate_safety_score, calculate_overall_score
\* and generate_maintenance_schedule returns a result (a score in [0, 100],
\* resp. a schedule whose priorities are the three the sort key knows), an
\* unknown foundation_type scores 75, an unknown roof_material is given an
\* expected life of 20 years, and an unknown ZIP is priced at the national
\* baseline (multiplier 1.0).
C14_TotalWithDefaults ==
    /\ pc = "calculate_structural_score" => StructuralUsesDefaults(ret)
    /\ pc = "calculate_systems_score" => InScoreRange(ret.score)
    /\ pc = "calculate_safety_score" => InScoreRange(ret.score)
    /\ pc = "calculate_overall_score" =>
          /\ InScoreRange(ret.overall_score)
          /\ StructuralUsesDefaults(ret.category_scores.Structural)
          /\ InScoreRange(ret.category_scores.Systems.score)
          /\ InScoreRange(ret.category_scores.Safety.score)
    /\ pc = "generate_maintenance_schedule" =>
          /\ Len(ret) >= 5
          /\ \A i \in 1..Len(ret) : ret[i].priority \in {"high", "important", "routine"}
          /\ ZipUnknown =>
                \A i \in 1..Len(ret) :
                    /\ ret[i].task = "HVAC Annual Service"
                          => ret[i].estimated_cost = national_cost_baseline["hvac_service"].avg
                    /\ ret[i].task = "HVAC Replacement Planning"
                          => ret[i].estimated_cost = national_cost_baseline["hvac_replacement"].avg
                    /\ ret[i].task = "Roof Inspection (detailed for age)"
                          => ret[i].estimated_cost = national_cost_baseline["roof_repair"].min

EdgeProperty ==
    /\ property_data.roof_material = "Thatch"
    /\ property_data.foundation_type = ""
    /\ property_data.year_built = today[1] + 1
    /\ property_data.zip_code = <<>>
    /\ property_data.last_inspection = NA

\* C14 witness: the overall score of a Property with an unknown roof
\* material, an empty foundation type, all ages 0, a year_built after the
\* current year, an empty ZIP and no inspection has been returned.
C14_WitnessEdgeOverall ==
    /\ pc = "calculate_overall_score"
    /\ EdgeProperty
    /\ property_data.hvac_age = 0 /\ property_data.roof_age = 0
    /\ ret.category_scores.Structural.components["Foundation Type"] = RInt(75)

(***************************************************************************)
(* Specification SpecScenario: calculate_overall_score on the worked       *)
(* examples.  The fields an example leaves open (ZIP, property type,       *)
(* square footage) and the day of the evaluation are drawn from sets.      *)
(***************************************************************************)
ScenarioDates ==
    {<<2025, 6, 15>>, Now0, <<2028, 2, 29>>, <<2029, 12, 31>>, <<2030, 1, 1>>,
     <<2032, 12, 31>>, <<2033, 1, 1>>}
ScenarioPropertyTypes == {"Single Family", "Townhouse", "Condo", "Multi-Family", "Commercial"}
ScenarioSquareFootages == {100, 1500, 20000}

\* a property built in 2024 with every system new and inspected today
NewProperty(now) ==
    [BaseProperty EXCEPT !.year_built = 2024, !.roof_age = 0, !.hvac_age = 0,
                         !.electrical_age = 0, !.plumbing_age = 0,
                         !.foundation_type = "Basement", !.roof_material = "Metal",
                         !.last_inspection = strftime(now)]

\* a property built in 1950 whose roof and systems are past their expected
\* lives and which was never inspected
OldProperty ==
    [BaseProperty EXCEPT !.year_built = 1950, !.roof_age = 40,
                         !.roof_material = "Asphalt Shingles", !.hvac_age = 30,
                         !.electrical_age = 50, !.plumbing_age = 60,
                         !.foundation_type = "Pier & Beam", !.last_inspection = NA]

ScenarioProperties(now) == {NewProperty(now), OldProperty}

InitScenario ==
    /\ today \in ScenarioDates
    /\ \E sp \in ScenarioProperties(today), z \in EdgeZips, pt \in ScenarioPropertyTypes,
          sf \in ScenarioSquareFootages :
          property_data = [sp EXCEPT !.zip_code = z, !.property_type = pt,
                                     !.square_footage = sf]
    /\ args = NoArgs
    /\ pc = "start"
    /\ ret = NoValue
    /\ session_state = FreshSession
    /\ WeatherIdle

NextScenario == CallOverall

SpecScenario == InitScenario /\ [][NextScenario]_vars

\* the Property of the state is the new-property example, whatever its ZIP,
\* type and size, and its building is at most 8 years old
IsNewProperty ==
    /\ [property_data EXCEPT !.zip_code = BaseProperty.zip_code,
                             !.property_type = BaseProperty.property_type,
                             !.square_footage = BaseProperty.square_footage]
          = NewProperty(today)
    /\ today[1] - property_data.year_built <= 8

NewPropertyCategoryScores ==
    /\ ret.category_scores.Structural.score = RInt(97)
    /\ ret.category_scores.Systems.score = RInt(100)
    /\ ret.category_scores.Safety.score = RInt(90)
    /\ ret.category_scores.Environmental.score = RInt(80)

\* C20 as stated: the new-property example scores structural 97, systems
\* 100, safety 90, environmental 80 and overall 96.1.
C20_NewPropertyScoresAsStated ==
    (pc = "calculate_overall_score" /\ IsNewProperty) =>
        /\ NewPropertyCategoryScores
        /\ ret.overall_score = Rat(961, 10)

\* C20 amended: the new-property example scores structural 97, systems 100,
\* safety 90, environmental 80 and overall 95.1
\* (97 * 0.3 + 100 * 0.4 + 90 * 0.2 + 80 * 0.1), as long as the building is
\* at most 8 years old.
C20_NewPropertyScores ==
    (pc = "calculate_overall_score" /\ IsNewProperty) =>
        /\ NewPropertyCategoryScores
        /\ ret.category_scores.Structural.components["Foundation Type"] = RInt(90)
        /\ ret.overall_score = Rat(951, 10)

\* C20 witness: the example has been scored on 6 November 2026 at 95.1.
C20_WitnessNewPropertyScored ==
    /\ pc = "calculate_overall_score"
    /\ today = Now0
    /\ IsNewProperty
    /\ ret.overall_score = Rat(951, 10)

\* the Property of the state is the old-property example, whatever its ZIP,
\* type and size
IsOldProperty ==
    [property_data EXCEPT !.zip_code = BaseProperty.zip_code,
                          !.property_type = BaseProperty.property_type,
                          !.square_footage = BaseProperty.square_footage]
       = OldProperty

\* roof, HVAC, electrical and plumbing are older than the lives the scores use
ComponentAgesExceedLife ==
    /\ property_data.roof_age
          > Lookup(roof_material_expected_lifespans, property_data.roof_material, 20)
    /\ property_data.hvac_age > 18
    /\ property_data.electrical_age > 35
    /\ property_data.plumbing_age > 50

\* C21 as stated: for the old-property example every component age exceeds
\* its expected life, the overall score is below 30 and the safety score is
\* at least 20 points below 90.
C21_OldPropertyScoresAsStated ==
    (pc = "calculate_overall_score" /\ IsOldProperty) =>
        /\ ComponentAgesExceedLife
        /\ RLt(ret.overall_score, RInt(30))
        /\ RLeq(ret.category_scores.Safety.score, RInt(70))

\* C21 amended: for the old-property example every component age exceeds its
\* expected life, the systems score is 0 and the safety score is 65 (25 below
\* 90); the overall score is at most 31.2 and it is below 30 exactly when the
\* building itself has reached its 80-year life (from 2030 on).
C21_OldPropertyScores ==
    (pc = "calculate_overall_score" /\ IsOldProperty) =>
        /\ ComponentAgesExceedLife
        /\ ret.category_scores.Systems.score = RInt(0)
        /\ ret.category_scores.Safety.score = RInt(65)
        /\ RLeq(ret.overall_score, Rat(312, 10))
        /\ RLt(ret.overall_score, RInt(30)) <=> (today[1] - property_data.year_built >= 80)

\* C21 witness: the example has been scored on 6 November 2026 at 30.9.
C21_WitnessOldPropertyScored ==
    /\ pc = "calculate_overall_score"
    /\ today = Now0
    /\ IsOldProperty
    /\ ret.overall_score = Rat(309, 10)


(***************************************************************************)
(* The dashboard (class Dashboard, class AuthenticationManager).           *)
(*                                                                         *)
(* Streamlit runs the whole script once per user event: the handler of the *)
(* widget the user touched runs inside that script run, and a handler that *)
(* ends with st.rerun() starts one more run without an event.  An action   *)
(* below is one user event: the handler followed by the run that           *)
(* st.rerun() starts.  pc names the handler and the branch it took.        *)
(* The keys of the widgets themselves (auth_*, the select boxes, the       *)
(* uploaders) are not part of the modelled session, and the select boxes   *)
(* and inputs of the maintenance, contractor and ROI tabs are left as they *)
(* come up.  Tab names are written without their emoji.                    *)
(***************************************************************************)
MaxProperties == 2   \* properties in the portfolio
MaxRecords == 2      \* maintenance records in the log
MaxDocuments == 1    \* documents held by all properties together

Addresses == {"12 Oak St", "7 Elm Rd"}

TabOptions ==
    {"Property Health", "Maintenance Center", "Find Contractors", "Analytics Hub",
     "ROI Calculator"}

\* str.upper() on the state abbreviations the forms are given
upper(str) == CASE str = "va" -> "VA" [] OTHER -> str

\* bool(x) of a str or None
Truthy(x) == x # None /\ x # ""

\* str.startswith on session keys: the keys of each prefix family
KeysWithPrefix(prefix) ==
    CASE prefix = "auth_" ->
            {"auth_conf_checkbox", "auth_ip_checkbox", "auth_courtesy_checkbox",
             "auth_stakeholder_checkbox", "auth_full_name", "auth_email_address",
             "auth_company_org", "auth_access_purpose", "auth_password_input",
             "auth_access_button"}
      [] prefix = "selected_property_address_" ->
            {"selected_property_address_health", "selected_property_address_maintenance",
             "selected_property_address_contractors", "selected_property_address_roi_calc"}
      [] prefix = "roi_" ->
            {"roi_property_address", "roi_improvement_name", "roi_estimated_cost",
             "roi_resale_value_increase", "roi_annual_savings", "roi_years_to_project"}

is_authenticated(ss) == Get(ss, "authenticated", FALSE)

\* for i, p in enumerate(properties): if p.address == address: idx = i; break
\* (0 where the code has -1)
FirstIndex(properties, address) ==
    IF \E i \in 1..Len(properties) : properties[i].address = address
    THEN CHOOSE i \in 1..Len(properties) :
            /\ properties[i].address = address
            /\ \A j \in 1..(i - 1) : properties[j].address # address
    ELSE 0

\* del list[i]
RemoveAt(seq, i) == SubSeq(seq, 1, i - 1) \o SubSeq(seq, i + 1, Len(seq))

\* f"selected_property_address_{key_suffix}"
SelectedKey(key_suffix) ==
    CASE key_suffix = "health" -> "selected_property_address_health"
      [] key_suffix = "maintenance" -> "selected_property_address_maintenance"
      [] key_suffix = "contractors" -> "selected_property_address_contractors"

\* Dashboard.render_property_selector, the select box left as it comes up:
\* the stored selection is kept when a property has that address; otherwise
\* the first property is selected, or nothing when allow_none is set
render_property_selector(ss, key_suffix, allow_none) ==
    IF ss.properties = <<>> THEN ss
    ELSE LET current_selected_address_val == Get(ss, SelectedKey(key_suffix), None)
             found == /\ Truthy(current_selected_address_val)
                      /\ FirstIndex(ss.properties, current_selected_address_val) # 0
         IN  Put(ss, SelectedKey(key_suffix),
                 IF found THEN current_selected_address_val
                 ELSE IF allow_none THEN None
                 ELSE ss.properties[1].address)

\* Dashboard.render_maintenance_history(None): the urgency filter of the
\* portfolio-wide list takes over a pending maintenance_filter_urgency once
render_maintenance_history(ss) ==
    IF ss.maintenance_records = <<>> THEN ss
    ELSE LET session_filter_key == "maintenance_filter_urgency_all"
             urgency_options ==
                 {"All"} \cup {ss.maintenance_records[k].urgency :
                                  k \in 1..Len(ss.maintenance_records)}
             s1 == IF session_filter_key \notin DOMAIN ss
                   THEN Put(Del(ss, {"maintenance_filter_urgency"}), session_filter_key,
                            Get(ss, "maintenance_filter_urgency", "All"))
                   ELSE ss
             selected_urgency ==
                 IF s1[session_filter_key] \in urgency_options
                 THEN s1[session_filter_key] ELSE "All"
         IN  Put(s1, session_filter_key, selected_urgency)

\* the five tabs, rendered one after the other
render_tabs(ss) ==
    LET s1 == IF ss.active_tab \notin TabOptions
              THEN [ss EXCEPT !.active_tab = "Property Health"] ELSE ss
        s2 == render_property_selector(s1, "health", FALSE)
        s3 == IF s2.properties = <<>> THEN s2
              ELSE render_maintenance_history(
                       render_property_selector(s2, "maintenance", TRUE))
        s4 == render_property_selector(s3, "contractors", TRUE)
        s5 == IF s4.properties = <<>> THEN s4
              ELSE [s4 EXCEPT !.roi_property_address =
                                  IF Truthy(@) /\ FirstIndex(s4.properties, @) # 0
                                  THEN @ ELSE None]
    IN  s5

\* which main panel Dashboard.run shows
MainPanel(ss) ==
    IF ss.editing_property_address # None THEN "edit_property"
    ELSE IF ss.show_add_property_form_main THEN "add_property"
    ELSE IF ss.show_add_maintenance_form_main THEN "add_maintenance"
    ELSE "tabs"

\* one script run without a widget event: Dashboard() and Dashboard.run()
run(ss) ==
    LET s1 == init_session_state(ss)
    IN  IF ~is_authenticated(s1) THEN s1
        ELSE IF MainPanel(s1) # "tabs" THEN s1
        ELSE render_tabs(s1)

(***************************************************************************)
(* The handlers, as functions from the session before the event to the     *)
(* session after it.                                                       *)
(***************************************************************************)
\* AuthenticationManager.render_auth_screen, the ACCESS PREVIEW button
\* (enabled: acknowledgements, signature and e-mail are complete)
access_preview(ss, password_input, now) ==
    IF password_input = "PropHealth2025!"
    THEN LET s1 == Put(ss, "access_info",
                       [name |-> "Pat Lee", email |-> "pat@example.com", company |-> "",
                        purpose |-> "Internal Review", timestamp |-> now])
             s2 == Put(s1, "authenticated", TRUE)
             s3 == Put(s2, "access_timestamp", now)
         IN  run(s3)
    ELSE ss

\* logout clears the whole session, the two lists included
logout_clear_all(ss) == run(Del(ss, DOMAIN ss))

\* logout forgets the keys of the property selectors
logout_keeps_selection(ss) ==
    LET keys_to_clear ==
            (DOMAIN ss \cap KeysWithPrefix("auth_"))
            \cup {"access_info", "authenticated", "access_timestamp",
                  "show_add_property_form_main", "show_add_maintenance_form_main",
                  "editing_property_address", "active_tab", "maintenance_filter_urgency"}
            \cup (DOMAIN ss \cap KeysWithPrefix("roi_"))
    IN  run(Del(ss, keys_to_clear))

\* AuthenticationManager.render_session_info, the logout button
logout(ss) ==
    LET keys_to_clear ==
            (DOMAIN ss \cap KeysWithPrefix("auth_"))
            \cup {"access_info", "authenticated", "access_timestamp",
                  "show_add_property_form_main", "show_add_maintenance_form_main",
                  "editing_property_address", "active_tab", "maintenance_filter_urgency"}
            \cup (DOMAIN ss \cap KeysWithPrefix("selected_property_address_"))
            \cup (DOMAIN ss \cap KeysWithPrefix("roi_"))
    IN  run(Del(ss, keys_to_clear))

\* Dashboard.render_quick_actions
quick_add_property(ss) ==
    run([ss EXCEPT !.show_add_property_form_main = TRUE,
                   !.show_add_maintenance_form_main = FALSE,
                   !.editing_property_address = None])

\* Log Maintenance Task leaves the add-property form open
quick_log_maintenance_keeps_add_form(ss) ==
    run([ss EXCEPT !.show_add_maintenance_form_main = TRUE,
                   !.editing_property_address = None])

quick_log_maintenance(ss) ==
    run([ss EXCEPT !.show_add_maintenance_form_main = TRUE,
                   !.show_add_property_form_main = FALSE,
                   !.editing_property_address = None])

quick_view_urgent(ss) ==
    run(Put([ss EXCEPT !.show_add_property_form_main = FALSE,
                       !.show_add_maintenance_form_main = FALSE,
                       !.editing_property_address = None,
                       !.active_tab = "Maintenance Center"],
            "maintenance_filter_urgency", "High"))

\* the cascade removes only the first record of the deleted address
delete_property_first_record(ss, i) ==
    LET address_to_delete == ss.properties[i].address
        idx_to_delete == FirstIndex(ss.properties, address_to_delete)
        records == ss.maintenance_records
        hit == {k \in 1..Len(records) : records[k].property_address = address_to_delete}
        s1 == [ss EXCEPT
                 !.maintenance_records =
                     IF hit = {} THEN @
                     ELSE RemoveAt(@, CHOOSE k \in hit : \A l \in hit : k <= l),
                 !.properties = RemoveAt(@, idx_to_delete),
                 !.editing_property_address = IF @ = address_to_delete THEN None ELSE @]
        s2 == IF Get(s1, "selected_property_address_health", None) = address_to_delete
              THEN Put(s1, "selected_property_address_health", None) ELSE s1
    IN  run(s2)

\* Dashboard.render_property_management_sidebar: the entry at position i of
\* the select box is chosen and the delete button clicked
delete_property(ss, i) ==
    LET address_to_delete == ss.properties[i].address
        idx_to_delete == FirstIndex(ss.properties, address_to_delete)
        Kept(record) == record.property_address # address_to_delete
        s1 == [ss EXCEPT
                 !.maintenance_records = SelectSeq(@, Kept),
                 !.properties = RemoveAt(@, idx_to_delete),
                 !.editing_property_address = IF @ = address_to_delete THEN None ELSE @]
        s2 == IF Get(s1, "selected_property_address_health", None) = address_to_delete
              THEN Put(s1, "selected_property_address_health", None) ELSE s1
    IN  run(s2)

\* not all([address, city, state, zip_code])
RequiredMissing(f) == f.address = "" \/ f.city = "" \/ f.state = "" \/ f.zip_code = <<>>

\* the Property the add form builds: every other input is left at its default
NewPropertyFrom(f) ==
    [BaseProperty EXCEPT !.address = f.address, !.city = f.city,
                         !.state = upper(f.state), !.zip_code = f.zip_code,
                         !.last_inspection = NA, !.image_data = None,
                         !.documents = <<>>]

\* an invalid form is stored as well
submit_add_property_unchecked(ss, f) ==
    run([ss EXCEPT !.properties = Append(@, NewPropertyFrom(f)),
                   !.show_add_property_form_main = FALSE])

\* Dashboard.render_add_property_form_main_panel, the submit button
submit_add_property(ss, f) ==
    IF RequiredMissing(f) THEN ss
    ELSE run([ss EXCEPT !.properties = Append(@, NewPropertyFrom(f)),
                        !.show_add_property_form_main = FALSE])

cancel_add_property(ss) == run([ss EXCEPT !.show_add_property_form_main = FALSE])

\* Dashboard.render_add_maintenance_form_main_panel with an empty portfolio
go_to_add_property(ss) ==
    run([ss EXCEPT !.show_add_maintenance_form_main = FALSE,
                   !.show_add_property_form_main = TRUE])

\* not actual_address_for_record or not description or not date or not
\* category or not urgency
RecordFieldMissing(m) ==
    ~Truthy(m.address) \/ m.description = "" \/ m.category = "" \/ m.urgency = ""

\* the record is filed under one fixed address instead of the address of the
\* property selected in the form
submit_maintenance_fixed_address(ss, m, now) ==
    IF m.description = "" THEN ss
    ELSE run([ss EXCEPT
                !.maintenance_records =
                    Append(@, MaintenanceRecord(strftime(now), m.category, m.description,
                                                m.cost, m.contractor, m.urgency,
                                                "7 Elm Rd")),
                !.show_add_maintenance_form_main = FALSE])

\* Dashboard.render_add_maintenance_form_main_panel, the submit button
submit_maintenance(ss, m, now) ==
    IF RecordFieldMissing(m) THEN ss
    ELSE run([ss EXCEPT
                !.maintenance_records =
                    Append(@, MaintenanceRecord(strftime(now), m.category, m.description,
                                                m.cost, m.contractor, m.urgency,
                                                m.address)),
                !.show_add_maintenance_form_main = FALSE])

cancel_maintenance(ss) == run([ss EXCEPT !.show_add_maintenance_form_main = FALSE])

\* the date input of the edit form starts from the stored string, parsed,
\* and the form writes its date back with strftime
EditedInspection(last_inspection) ==
    IF last_inspection # <<>> /\ last_inspection # NA /\ strptime(last_inspection).ok
    THEN strftime(strptime(last_inspection).date)
    ELSE NA

\* the records of the property follow its new address
save_edit_renaming_records(ss, f) ==
    LET prop_idx == FirstIndex(ss.properties, ss.editing_property_address)
        old == ss.properties[prop_idx].address
    IN  IF RequiredMissing(f) THEN ss
        ELSE run([ss EXCEPT
                    !.properties[prop_idx] =
                        [@ EXCEPT !.address = f.address, !.city = f.city,
                                  !.state = upper(f.state), !.zip_code = f.zip_code,
                                  !.last_inspection = EditedInspection(@)],
                    !.maintenance_records =
                        [k \in 1..Len(@) |->
                            IF @[k].property_address = old
                            THEN [@[k] EXCEPT !.property_address = f.address]
                            ELSE @[k]],
                    !.editing_property_address = None])

\* Dashboard.render_edit_property_form_main_panel, the save button; the
\* inputs that are not in f are left at the values the form shows, which are
\* the stored ones
save_edit(ss, f) ==
    LET prop_idx == FirstIndex(ss.properties, ss.editing_property_address)
    IN  IF RequiredMissing(f) THEN ss
        ELSE run([ss EXCEPT
                    !.properties[prop_idx] =
                        [@ EXCEPT !.address = f.address, !.city = f.city,
                                  !.state = upper(f.state), !.zip_code = f.zip_code,
                                  !.last_inspection = EditedInspection(@)],
                    !.editing_property_address = None])

cancel_edit(ss) == run([ss EXCEPT !.editing_property_address = None])

\* the select box of the health tab
select_property(ss, address) == run(Put(ss, "selected_property_address_health", address))

\* the Property render_property_selector("health") returns
SelectedProperty(ss) ==
    ss.properties[FirstIndex(ss.properties, ss.selected_property_address_health)]

\* Dashboard.render_health_score_visualization, the edit button
edit_this_property(ss) ==
    run([ss EXCEPT !.editing_property_address = SelectedProperty(ss).address,
                   !.show_add_property_form_main = FALSE,
                   !.show_add_maintenance_form_main = FALSE])

\* f"doc_uploader_{property_data.address.replace(' ','_')}": the key under
\* which the session holds the files of the uploader widget
DocUploaderKey(address) ==
    CASE address = "12 Oak St" -> "doc_uploader_12_Oak_St"
      [] address = "7 Elm Rd" -> "doc_uploader_7_Elm_Rd"
      [] OTHER -> "doc_uploader_"

\* the names of the files the uploader of the selected property holds;
\* st.file_uploader keeps them from one script run to the next until the
\* user takes them out
uploaded_files(ss) == Get(ss, DocUploaderKey(SelectedProperty(ss).address), <<>>)

\* Dashboard.render_property_documents down to its st.rerun(): every file in
\* the uploader is appended to the documents of the selected property
render_property_documents(ss, now) ==
    LET prop_idx == FirstIndex(ss.properties, SelectedProperty(ss).address)
        files == uploaded_files(ss)
    IN  [ss EXCEPT !.properties[prop_idx].documents =
                       @ \o [k \in 1..Len(files) |->
                                [name |-> files[k], type |-> "application/pdf",
                                 upload_time |-> now]]]

\* one script run of a session whose uploader may hold files: with files in
\* the uploader the run ends at the st.rerun() of render_property_documents,
\* before the tabs after the health tab are rendered
script_run(ss, now) ==
    LET s1 == init_session_state(ss)
        s2 == render_property_selector(
                  IF s1.active_tab \notin TabOptions
                  THEN [s1 EXCEPT !.active_tab = "Property Health"] ELSE s1,
                  "health", FALSE)
    IN  IF ~is_authenticated(s1) \/ MainPanel(s1) # "tabs" THEN s1
        ELSE IF s2.properties # <<>> /\ uploaded_files(s2) # <<>>
        THEN render_property_documents(s2, now)
        ELSE render_tabs(s1)

RECURSIVE script_runs(_, _, _)
script_runs(ss, k, now) ==
    IF k = 0 THEN ss ELSE script_runs(script_run(ss, now), k - 1, now)

\* Dashboard.render_property_documents: n files are put into the uploader
\* and stay there for k script runs, each of which appends them and calls
\* st.rerun(); then the user takes them out and the script runs to its end
upload_documents(ss, n, k, now) ==
    LET key == DocUploaderKey(SelectedProperty(ss).address)
        held == Put(ss, key, [i \in 1..n |-> "deed.pdf"])
    IN  run(Del(script_runs(held, k, now), {key}))

\* Dashboard.render_property_documents, the delete button of document i
delete_document(ss, i) ==
    LET prop_idx == FirstIndex(ss.properties, SelectedProperty(ss).address)
    IN  run([ss EXCEPT !.properties[prop_idx].documents = RemoveAt(@, i)])

(***************************************************************************)
(* Specification Spec: a browser session of the dashboard.  Every action   *)
(* is one user event.                                                      *)
(***************************************************************************)
\* the four required text inputs of the property forms: all filled in, or
\* one of them left empty
PropertyFormInputs ==
    {f \in [address : Addresses \cup {""}, city : {"", "Culpeper"}, state : {"", "va"},
            zip_code : {<<>>, <<"2", "2", "7", "0", "1">>}] :
        Cardinality({k \in {"address", "city", "state"} : f[k] = ""}
                    \cup {k \in {"zip_code"} : f[k] = <<>>}) <= 1}

\* the select box offers the addresses of the portfolio; None is a select box
\* without a choice
MaintenanceFormInputs(ss) ==
    [address : {ss.properties[i].address : i \in 1..Len(ss.properties)} \cup {None},
     category : {"HVAC"}, description : {"", "serviced"}, cost : {0},
     contractor : {""}, urgency : {"Routine", "High"}]

RECURSIVE TotalDocuments(_)
TotalDocuments(properties) ==
    IF properties = <<>> THEN 0
    ELSE Len(properties[1].documents) + TotalDocuments(Tail(properties))

Init ==
    /\ today = Now0
    /\ property_data = NoProperty
    /\ args = NoArgs
    /\ pc = "start"
    /\ ret = NoValue
    /\ session_state = FreshSession
    /\ WeatherIdle

\* the event named label has been handled and has left the session ss
Handled(label, ss) ==
    /\ session_state' = ss
    /\ pc' = label
    /\ UNCHANGED <<today, property_data, args, ret, weather_vars>>

Panel(name) == is_authenticated(session_state) /\ MainPanel(session_state) = name

AccessPreview ==
    /\ ~is_authenticated(session_state)
    /\ \E password_input \in {"PropHealth2025!", "guess"} :
          Handled(IF password_input = "PropHealth2025!" THEN "access_granted"
                  ELSE "access_denied",
                  access_preview(session_state, password_input, today))

Logout ==
    /\ is_authenticated(session_state)
    /\ Handled("logout", logout(session_state))

QuickAddProperty ==
    /\ is_authenticated(session_state)
    /\ Handled("quick_add_property", quick_add_property(session_state))

QuickLogMaintenance ==
    /\ is_authenticated(session_state)
    /\ session_state.properties # <<>>
    /\ Handled("quick_log_maintenance", quick_log_maintenance(session_state))

QuickViewUrgent ==
    /\ is_authenticated(session_state)
    /\ \E k \in 1..Len(session_state.maintenance_records) :
          session_state.maintenance_records[k].urgency = "High"
    /\ Handled("quick_view_urgent", quick_view_urgent(session_state))

DeleteProperty ==
    /\ is_authenticated(session_state)
    /\ \E i \in 1..Len(session_state.properties) :
          Handled("delete_property", delete_property(session_state, i))

SubmitAddProperty ==
    /\ Panel("add_property")
    /\ \E f \in PropertyFormInputs :
          /\ RequiredMissing(f) \/ Len(session_state.properties) < MaxProperties
          /\ Handled(IF RequiredMissing(f) THEN "add_property_incomplete"
                     ELSE "add_property_complete",
                     submit_add_property(session_state, f))

CancelAddProperty ==
    /\ Panel("add_property")
    /\ Handled("cancel_add_property", cancel_add_property(session_state))

GoToAddProperty ==
    /\ Panel("add_maintenance")
    /\ session_state.properties = <<>>
    /\ Handled("go_to_add_property", go_to_add_property(session_state))

SubmitMaintenance ==
    /\ Panel("add_maintenance")
    /\ session_state.properties # <<>>
    /\ \E m \in MaintenanceFormInputs(session_state) :
          /\ RecordFieldMissing(m) \/ Len(session_state.maintenance_records) < MaxRecords
          /\ Handled(IF RecordFieldMissing(m) THEN "add_maintenance_incomplete"
                     ELSE "add_maintenance_complete",
                     submit_maintenance(session_state, m, today))

CancelMaintenance ==
    /\ Panel("add_maintenance")
    /\ session_state.properties # <<>>
    /\ Handled("cancel_maintenance", cancel_maintenance(session_state))

\* the edit form finds its property.  (The branch for a property that is
\* gone, lines 1078-1083, is never taken: the only handler that removes a
\* property clears editing_property_address when the addresses agree.)
EditFound ==
    FirstIndex(session_state.properties, session_state.editing_property_address) # 0

SaveEdit ==
    /\ Panel("edit_property")
    /\ EditFound
    /\ \E f \in PropertyFormInputs :
          Handled(IF RequiredMissing(f) THEN "edit_property_incomplete"
                  ELSE "edit_property_complete",
                  save_edit(session_state, f))

CancelEdit ==
    /\ Panel("edit_property")
    /\ EditFound
    /\ Handled("cancel_edit", cancel_edit(session_state))

HealthTab == Panel("tabs") /\ session_state.properties # <<>>

SelectProperty ==
    /\ HealthTab
    /\ \E i \in 1..Len(session_state.properties) :
          Handled("select_property",
                  select_property(session_state, session_state.properties[i].address))

EditThisProperty ==
    /\ HealthTab
    /\ Handled("edit_this_property", edit_this_property(session_state))

UploadDocuments ==
    /\ HealthTab
    /\ \E n, k \in 1..(MaxDocuments - TotalDocuments(session_state.properties)) :
          /\ n * k <= MaxDocuments - TotalDocuments(session_state.properties)
          /\ Handled("upload_documents", upload_documents(session_state, n, k, today))

DeleteDocument ==
    /\ HealthTab
    /\ \E i \in 1..Len(SelectedProperty(session_state).documents) :
          Handled("delete_document", delete_document(session_state, i))

Next ==
    \/ AccessPreview \/ Logout
    \/ QuickAddProperty \/ QuickLogMaintenance \/ QuickViewUrgent
    \/ DeleteProperty
    \/ SubmitAddProperty \/ CancelAddProperty
    \/ GoToAddProperty \/ SubmitMaintenance \/ CancelMaintenance
    \/ SaveEdit \/ CancelEdit
    \/ SelectProperty \/ EditThisProperty \/ UploadDocuments \/ DeleteDocument

Spec == Init /\ [][Next]_vars

(***************************************************************************)
(* Properties of the session.                                              *)
(***************************************************************************)
PropertiesOf(ss) == ss.properties
RecordsOf(ss) == ss.maintenance_records

AddressesOf(properties) == {properties[i].address : i \in 1..Len(properties)}

RecordsNotAt(records, address) ==
    LET Other(record) == record.property_address # address
    IN  SelectSeq(records, Other)

IsPrefix(s1, s2) == Len(s1) <= Len(s2) /\ SubSeq(s2, 1, Len(s1)) = s1

\* C15: a step that removes a property from the list removes from
\* maintenance_records exactly the records whose property_address is the
\* removed property's address: what is left is the old list without them, in
\* the old order.
C15_DeleteCascade ==
    [][Len(PropertiesOf(session_state')) < Len(PropertiesOf(session_state)) =>
          \E i \in 1..Len(PropertiesOf(session_state)) :
              /\ PropertiesOf(session_state') = RemoveAt(PropertiesOf(session_state), i)
              /\ RecordsOf(session_state') =
                    RecordsNotAt(RecordsOf(session_state),
                                 PropertiesOf(session_state)[i].address)]_vars

\* C15 witness: "12 Oak St" has been deleted; no record of it is left, and
\* the two records of "7 Elm Rd" are still there, the urgent one first.
C15_WitnessOthersSurvive ==
    /\ pc = "delete_property"
    /\ AddressesOf(session_state.properties) = {"7 Elm Rd"}
    /\ Len(session_state.maintenance_records) = 2
    /\ session_state.maintenance_records[1].property_address = "7 Elm Rd"
    /\ session_state.maintenance_records[1].urgency = "High"
    /\ session_state.maintenance_records[2].property_address = "7 Elm Rd"
    /\ session_state.maintenance_records[2].urgency = "Routine"

\* C16: a step that adds a record is taken with a non-empty property list,
\* appends one record and leaves the other records and the property list as
\* they are, and the new record's property_address is the address of a
\* property of the list.
C16_RecordForExistingProperty ==
    [][Len(RecordsOf(session_state')) > Len(RecordsOf(session_state)) =>
          /\ PropertiesOf(session_state) # <<>>
          /\ PropertiesOf(session_state') = PropertiesOf(session_state)
          /\ Len(RecordsOf(session_state')) = Len(RecordsOf(session_state)) + 1
          /\ IsPrefix(RecordsOf(session_state), RecordsOf(session_state'))
          /\ RecordsOf(session_state')[Len(RecordsOf(session_state'))].property_address
                \in AddressesOf(PropertiesOf(session_state))]_vars

\* C16 witness: with "12 Oak St" as the only property a record has been
\* logged for it.
C16_WitnessRecordLogged ==
    /\ pc = "add_maintenance_complete"
    /\ AddressesOf(session_state.properties) = {"12 Oak St"}
    /\ Len(session_state.maintenance_records) = 1
    /\ session_state.maintenance_records[1].property_address = "12 Oak St"
    /\ ~session_state.show_add_maintenance_form_main

\* the position of the property the edit form of the session works on
EditedIndex(ss) == FirstIndex(ss.properties, ss.editing_property_address)

\* C17: saving an edit leaves maintenance_records as it is.  When the save
\* changes the address, every record of the old address still carries it, and
\* a property of that address exists afterwards exactly if another property
\* had it.
C17_EditKeepsRecords ==
    [][pc' = "edit_property_complete" =>
          LET idx == EditedIndex(session_state)
              old == PropertiesOf(session_state)[idx].address
              new == PropertiesOf(session_state')[idx].address
          IN  /\ RecordsOf(session_state') = RecordsOf(session_state)
              /\ old # new =>
                    (old \in AddressesOf(PropertiesOf(session_state')))
                    <=> (\E j \in 1..Len(PropertiesOf(session_state)) :
                            j # idx /\ PropertiesOf(session_state)[j].address = old)]_vars

\* C17 witness: the only property has been renamed from "12 Oak St" to
\* "7 Elm Rd" and its record still says "12 Oak St".
C17_WitnessOrphanRecord ==
    /\ pc = "edit_property_complete"
    /\ AddressesOf(session_state.properties) = {"7 Elm Rd"}
    /\ Len(session_state.properties) = 1
    /\ Len(session_state.maintenance_records) = 1
    /\ session_state.maintenance_records[1].property_address = "12 Oak St"

IncompleteSubmits ==
    {"add_property_incomplete", "edit_property_incomplete", "add_maintenance_incomplete"}

\* C18: submitting the add-property or the edit-property form with an empty
\* address, city, state or ZIP, or the maintenance form with an empty
\* description or without a property, leaves the property list, the
\* maintenance records and the whole session as they were, with the same
\* form still shown.
C18_InvalidSubmitNoChange ==
    [][pc' \in IncompleteSubmits =>
          /\ PropertiesOf(session_state') = PropertiesOf(session_state)
          /\ RecordsOf(session_state') = RecordsOf(session_state)
          /\ session_state' = session_state
          /\ MainPanel(session_state') =
                (CASE pc' = "add_property_incomplete" -> "add_property"
                   [] pc' = "edit_property_incomplete" -> "edit_property"
                   [] pc' = "add_maintenance_incomplete" -> "add_maintenance")]_vars

\* C18 witness: the maintenance form has been submitted incompletely while
\* the session holds a property and a record; the form is still open.
C18_WitnessFormStillOpen ==
    /\ pc = "add_maintenance_incomplete"
    /\ session_state.show_add_maintenance_form_main
    /\ Len(session_state.properties) = 1
    /\ Len(session_state.maintenance_records) = 1

\* C19: in every step either maintenance_records keeps all its records,
\* unchanged and in place (it stays the same or grows at the end), or a
\* property is removed and the records that disappear are those of its
\* address.
C19_RecordLifetime ==
    [][\/ IsPrefix(RecordsOf(session_state), RecordsOf(session_state'))
       \/ \E i \in 1..Len(PropertiesOf(session_state)) :
             /\ PropertiesOf(session_state') = RemoveAt(PropertiesOf(session_state), i)
             /\ RecordsOf(session_state') =
                   RecordsNotAt(RecordsOf(session_state),
                                PropertiesOf(session_state)[i].address)]_vars

\* C19 witness: after a logout and a new login the two records logged before
\* are still in the session, next to a property that holds a document.
C19_WitnessRecordsOutliveLogout ==
    /\ pc = "access_granted"
    /\ Len(session_state.maintenance_records) = 2
    /\ TotalDocuments(session_state.properties) = 1

(***************************************************************************)
(* get_weather_data.                                                       *)
(*                                                                         *)
(* The function talks to api.openweathermap.org through requests.get; what *)
(* comes back is the input of the model.  Python values that come from the *)
(* JSON body, and the values of the dict the function returns, are tagged  *)
(* with their type: t is "null", "num", "str", "obj" or "arr"; s holds the *)
(* numeral or the text as a string, o the dict as a function from its      *)
(* keys, a the list as a sequence.                                         *)
(***************************************************************************)
EmptyDict == [k \in {} |-> ""]
JNull == [t |-> "null", s |-> "", o |-> EmptyDict, a |-> <<>>]
JNum(v) == [t |-> "num", s |-> v, o |-> EmptyDict, a |-> <<>>]
JStr(v) == [t |-> "str", s |-> v, o |-> EmptyDict, a |-> <<>>]
JObj(v) == [t |-> "obj", s |-> "", o |-> v, a |-> <<>>]
JArr(v) == [t |-> "arr", s |-> "", o |-> EmptyDict, a |-> v]

\* a == b for tagged values
JEq(x, y) == x.t = y.t /\ x.s = y.s /\ x.o = y.o /\ x.a = y.a

\* bool(x)
PyTruthy(x) ==
    CASE x.t = "null" -> FALSE
      [] x.t = "num" -> x.s \notin {"0", "0.0"}
      [] x.t = "str" -> x.s # ""
      [] x.t = "obj" -> DOMAIN x.o # {}
      [] x.t = "arr" -> Len(x.a) > 0

\* d.get(key, default) of a dict
PyGet(d, key, default) == IF key \in DOMAIN d.o THEN d.o[key] ELSE default

\* str.capitalize(): first character upper case, the rest lower case
capitalize(str) ==
    CASE str = "N/A" -> "N/a"
      [] str = "clear sky" -> "Clear sky"
      [] str = "Light Rain" -> "Light rain"
      [] OTHER -> str

\* how a statement ends: with a value, or with an exception of a class
Returned(value) == [kind |-> "return", value |-> value, exception |-> "", status_code |-> 0]
Raised(exception, status_code) ==
    [kind |-> "raise", value |-> EmptyDict, exception |-> exception,
     status_code |-> status_code]

WeatherError(message) == ("error" :> message)

\* x[0].get(key, default) for x = data.get("weather", [{}]): IndexError on an
\* empty list or string, TypeError on None or a number, KeyError on a dict,
\* AttributeError when the first item is not a dict
FirstItemGet(x, key, default) ==
    IF x.t = "arr" /\ Len(x.a) > 0 /\ x.a[1].t = "obj"
    THEN Returned(PyGet(x.a[1], key, default))
    ELSE Raised("Exception", 0)

\* the try block from data = response.json() on
ParseWeather(data) ==
    IF data.t # "obj" THEN Raised("Exception", 0)
    ELSE IF ~JEq(PyGet(data, "cod", JNull), JNum("200"))
    THEN Returned(WeatherError(PyGet(data, "message", JStr("Unknown API error"))))
    ELSE LET main == PyGet(data, "main", JObj(EmptyDict))
             weather == PyGet(data, "weather", JArr(<<JObj(EmptyDict)>>))
             wind == PyGet(data, "wind", JObj(EmptyDict))
             description == FirstItemGet(weather, "description", JStr("N/A"))
             icon == FirstItemGet(weather, "icon", JNull)
         IN  IF \/ main.t # "obj"
                \/ description.kind = "raise"
                \/ description.value.t # "str"
                \/ wind.t # "obj"
             THEN Raised("Exception", 0)
             ELSE LET weather_info ==
                          ("temp" :> PyGet(main, "temp", JNull))
                          @@ ("feels_like" :> PyGet(main, "feels_like", JNull))
                          @@ ("humidity" :> PyGet(main, "humidity", JNull))
                          @@ ("description" :> JStr(capitalize(description.value.s)))
                          @@ ("icon" :> icon.value)
                          @@ ("wind_speed" :> PyGet(wind, "speed", JNull))
                          @@ ("city_name" :> PyGet(data, "name", JStr("N/A")))
                          @@ ("error" :> JNull)
                  IN  IF weather_info["temp"].t = "null" \/ weather_info["icon"].t = "null"
                      THEN Returned(WeatherError(JStr("Incomplete weather data received.")))
                      ELSE Returned(weather_info)

\* the try block: requests.get, raise_for_status, response.json and the rest
TryRequest(response) ==
    CASE response.kind \in {"timeout", "connection_error"} ->
            Raised("RequestException", 0)
      [] response.kind = "http" /\ response.status_code >= 400 ->
            Raised("HTTPError", response.status_code)
      [] response.kind = "http" /\ response.status_code < 400 /\ ~response.parsable ->
            Raised("JSONDecodeError", 0)
      [] OTHER -> ParseWeather(response.body)

\* the except clauses.  The JSONDecodeError of response.json() is a
\* RequestException in requests 2.27 and later and a plain ValueError before,
\* so either of the two clauses can take it.
HandledWeather(zip_code, outcome) ==
    IF outcome.kind = "return" THEN {outcome}
    ELSE CASE outcome.exception = "HTTPError" ->
                {Returned(WeatherError(JStr(
                    CASE outcome.status_code = 401 ->
                            "Invalid API key. Please check your key in Streamlit Secrets."
                      [] outcome.status_code = 404 ->
                            "Weather data not found for ZIP code: {zip_code}."
                      [] OTHER -> "HTTP error: {http_err}")))}
           [] outcome.exception = "RequestException" ->
                {Returned(WeatherError(JStr("Network error: {req_err}")))}
           [] outcome.exception = "JSONDecodeError" ->
                {Returned(WeatherError(JStr("Network error: {req_err}"))),
                 Returned(WeatherError(JStr("Error parsing weather data: {json_err}")))}
           [] OTHER ->
                {Returned(WeatherError(JStr("An unexpected error occurred: {e}")))}

\* whether the call gets as far as requests.get
IssuesRequest(zip_code, api_key) == Truthy(api_key) /\ Truthy(zip_code)

\* get_weather_data without its cache: the set of outcomes, given what the
\* request would bring
get_weather_data(zip_code, api_key, response) ==
    IF ~Truthy(api_key)
    THEN {Returned(WeatherError(JStr("API key not provided.")))}
    ELSE IF ~Truthy(zip_code)
    THEN {Returned(WeatherError(JStr("ZIP code not provided.")))}
    ELSE HandledWeather(zip_code, TryRequest(response))

(***************************************************************************)
(* Specification SpecWeatherCall: one call of get_weather_data, for every  *)
(* kind of ZIP, key and answer of the weather service.                      *)
(***************************************************************************)
CallZips == {None, "", "22701"}
CallKeys == {None, "", "key-a"}

CodValues == {JNum("200"), JStr("200"), JNum("404"), JStr("404")}
MessageValues == {JStr("city not found"), JStr(""), JNull}
MainValues ==
    {JNull, JObj(EmptyDict), JObj(("temp" :> JNull)), JObj(("temp" :> JNum("0"))),
     JObj(("temp" :> JNum("71.3")) @@ ("feels_like" :> JNum("70.2"))
          @@ ("humidity" :> JNum("40")))}
WeatherValues ==
    {JNull, JArr(<<>>), JArr(<<JObj(EmptyDict)>>),
     JArr(<<JObj(("icon" :> JStr("01d")) @@ ("description" :> JStr("clear sky")))>>),
     JArr(<<JObj(("icon" :> JStr("10d")) @@ ("description" :> JNull))>>),
     JArr(<<JObj(("icon" :> JNull) @@ ("description" :> JStr("Light Rain")))>>)}

\* a dict with the keys of present that have a value in fields
DictOf(fields, present) == [k \in present |-> fields[k]]

\* the JSON documents the service can answer with
WeatherBodies ==
    {JNull, JArr(<<>>), JStr("ok")}
    \cup {JObj(DictOf([cod |-> c, message |-> m, main |-> mn, weather |-> w], present)) :
             c \in CodValues, m \in MessageValues, mn \in MainValues, w \in WeatherValues,
             present \in {{"cod", "message"}, {"message"}, {"cod"}, {"cod", "main"},
                          {"cod", "weather"}, {"cod", "main", "weather"},
                          {"cod", "message", "main", "weather"}}}

HttpResponse(status_code, parsable, body) ==
    [kind |-> "http", status_code |-> status_code, parsable |-> parsable, body |-> body]

\* what requests.get can bring: no answer, an error status, or a body
WeatherResponses ==
    {[kind |-> "timeout"], [kind |-> "connection_error"]}
    \cup {HttpResponse(c, FALSE, JNull) : c \in {200, 401, 403, 404, 500}}
    \cup {HttpResponse(200, TRUE, body) : body \in WeatherBodies}

InitWeatherCall ==
    /\ today = Now0
    /\ property_data = NoProperty
    /\ \E z \in CallZips, k \in CallKeys, r \in WeatherResponses :
          args = [zip_code |-> z, api_key |-> k, response |-> r]
    /\ pc = "start"
    /\ ret = NoValue
    /\ session_state = FreshSession
    /\ WeatherIdle

CallGetWeatherData ==
    /\ pc = "start"
    /\ "response" \in DOMAIN args
    /\ \E r \in get_weather_data(args.zip_code, args.api_key, args.response) : ret' = r
    /\ pc' = "get_weather_data"
    /\ UNCHANGED <<today, property_data, args, session_state, weather_vars>>

NextWeatherCall == CallGetWeatherData

SpecWeatherCall == InitWeatherCall /\ [][NextWeatherCall]_vars

\* the call of the state fails for one of the documented reasons
WeatherFailure ==
    \/ ~Truthy(args.api_key)
    \/ ~Truthy(args.zip_code)
    \/ args.response.kind # "http"
    \/ args.response.status_code >= 400
    \/ ~args.response.parsable
    \/ args.response.body.t # "obj"
    \/ ~JEq(PyGet(args.response.body, "cod", JNull), JNum("200"))
    \/ ret.value = WeatherError(JStr("Incomplete weather data received."))

\* C22: get_weather_data always returns; a failed call returns a dict whose
\* "error" is non-empty, and a dict whose "error" is empty or None carries a
\* temp and an icon.
C22_ErrorsAsValues ==
    pc = "get_weather_data" =>
        /\ ret.kind = "return"
        /\ "error" \in DOMAIN ret.value
        /\ WeatherFailure => PyTruthy(ret.value["error"])
        /\ ~PyTruthy(ret.value["error"]) =>
              /\ {"temp", "icon"} \subseteq DOMAIN ret.value
              /\ ret.value["temp"].t # "null"
              /\ ret.value["icon"].t # "null"

(***************************************************************************)
(* Specification SpecWeather: render_weather_display calling               *)
(* get_weather_data through @st.cache_data(ttl=600).                       *)
(*                                                                         *)
(* st.cache_data keeps the returned value under the arguments of the call  *)
(* and hands it out, without running the function, until ttl seconds after *)
(* the value was stored.  ZIP codes come from stored properties and are    *)
(* never empty (the forms reject an empty ZIP); the key comes from         *)
(* st.secrets and may be missing.                                          *)
(***************************************************************************)
MaxRequests == 2   \* requests.get calls in one behaviour

ttl == 600
timeout == 10

\* the instants at which something happens
WeatherInstants == {0, 10, 599, 609, 610, 1210}
DisplayZips == {"22701", "20109"}
SecretKeys == {"", "key-a", "key-b"}

\* answers of the service: a complete report, an unknown ZIP, no answer
DisplayResponses ==
    {HttpResponse(200, TRUE,
                  JObj([cod |-> JNum("200"),
                        main |-> JObj(("temp" :> JNum("71.3"))),
                        weather |-> JArr(<<JObj(("icon" :> JStr("01d")))>>)])),
     HttpResponse(404, FALSE, JNull),
     [kind |-> "timeout"]}

\* a cache that forgets error results
CacheHit_skip_errors(store, key, now) ==
    /\ key \in DOMAIN store
    /\ now < store[key].expires
    /\ ~PyTruthy(store[key].value.value["error"])

\* the cache holds a value for the arguments that has not expired
CacheHit(store, key, now) ==
    /\ key \in DOMAIN store
    /\ now < store[key].expires

CachePut(store, key, entry) ==
    [q \in DOMAIN store \cup {key} |-> IF q = key THEN entry ELSE store[q]]

InitWeather ==
    /\ today = Now0
    /\ property_data = NoProperty
    /\ args = NoArgs
    /\ pc = "start"
    /\ ret = NoValue
    /\ session_state = FreshSession
    /\ WeatherIdle

\* render_weather_display without a key in st.secrets: a warning, no call
WeatherNoKey ==
    /\ \E z \in DisplayZips : args' = [zip_code |-> z, api_key |-> ""]
    /\ pc' = "weather_no_key"
    /\ ret' = NoValue
    /\ UNCHANGED <<today, property_data, session_state, weather_vars>>

\* render_weather_display, the value taken from the cache
WeatherCached ==
    \E z \in DisplayZips, k \in SecretKeys :
        /\ Truthy(k)
        /\ CacheHit(cache, <<z, k>>, clock)
        /\ args' = [zip_code |-> z, api_key |-> k]
        /\ ret' = cache[<<z, k>>].value
        /\ pc' = "weather_cached"
        /\ UNCHANGED <<today, property_data, session_state, weather_vars>>

\* render_weather_display, get_weather_data run: the request takes up to
\* the timeout, and the value is stored when the call is done
WeatherFetched ==
    \E z \in DisplayZips, k \in SecretKeys, response \in DisplayResponses,
       took \in {0, timeout} :
        /\ response.kind = "timeout" => took = timeout
        /\ Truthy(k)
        /\ ~CacheHit(cache, <<z, k>>, clock)
        /\ Len(http_requests) < MaxRequests
        /\ clock + took \in WeatherInstants
        /\ \E r \in get_weather_data(z, k, response) :
              /\ ret' = r
              /\ cache' = IF r.kind = "return"
                          THEN CachePut(cache, <<z, k>>,
                                        [value |-> r, expires |-> clock + took + ttl])
                          ELSE cache
              /\ http_requests' =
                    IF IssuesRequest(z, k)
                    THEN Append(http_requests,
                                [zip_code |-> z, api_key |-> k, at |-> clock,
                                 done |-> clock + took, result |-> r])
                    ELSE http_requests
        /\ clock' = clock + took
        /\ args' = [zip_code |-> z, api_key |-> k]
        /\ pc' = "weather_fetched"
        /\ UNCHANGED <<today, property_data, session_state>>

TimePasses ==
    /\ \E t \in WeatherInstants : t > clock /\ clock' = t
    /\ pc' = "time_passes"
    /\ UNCHANGED <<today, property_data, args, ret, session_state, cache,
                   http_requests>>

NextWeather == WeatherNoKey \/ WeatherCached \/ WeatherFetched \/ TimePasses

SpecWeather == InitWeather /\ [][NextWeather]_vars

\* the requests made for a ZIP and key whose call was done less than 600
\* seconds before now
FreshRequests(log, z, k, now) ==
    {i \in 1..Len(log) :
        log[i].zip_code = z /\ log[i].api_key = k /\ now < log[i].done + 600}

\* two requests for the same ZIP and key lie at least 600 seconds apart
RequestsSpaced(log) ==
    \A i, j \in 1..Len(log) :
        (i < j /\ log[i].zip_code = log[j].zip_code /\ log[i].api_key = log[j].api_key)
            => log[j].at >= log[i].done + 600

\* C23: a call of get_weather_data for a ZIP and key less than 600 seconds
\* after a call for the same pair was done returns the result of that call,
\* an error result included, and makes no request; any other call makes
\* exactly one new request, for its own pair; so two requests for one pair
\* are never less than 600 seconds apart.
C23_MemoizedFor600Seconds ==
    [][pc' \in {"weather_cached", "weather_fetched"} =>
          LET fresh == FreshRequests(http_requests, args'.zip_code, args'.api_key, clock)
              latest == CHOOSE m \in fresh : \A n \in fresh : n <= m
          IN  /\ fresh # {} =>
                    /\ http_requests' = http_requests
                    /\ ret' = http_requests[latest].result
              /\ fresh = {} =>
                    /\ Len(http_requests') = Len(http_requests) + 1
                    /\ SubSeq(http_requests', 1, Len(http_requests)) = http_requests
                    /\ http_requests'[Len(http_requests')].zip_code = args'.zip_code
                    /\ http_requests'[Len(http_requests')].api_key = args'.api_key
                    /\ http_requests'[Len(http_requests')].at = clock
              /\ RequestsSpaced(http_requests')]_vars

\* C23 witness: 599 seconds after a call that ended in an error was done,
\* the same error is handed out again and still only one request was made.
C23_WitnessStoredErrorReturned ==
    /\ pc = "weather_cached"
    /\ Len(http_requests) = 1
    /\ PyTruthy(ret.value["error"])
    /\ ret = http_requests[1].result
    /\ clock = http_requests[1].done + 599

(***************************************************************************)
(* More properties of the dashboard (specification Spec).                  *)
(***************************************************************************)
\* the keys the logout is documented to clear
DocumentedLogoutKeys ==
    KeysWithPrefix("auth_") \cup KeysWithPrefix("selected_property_address_")
    \cup KeysWithPrefix("roi_")
    \cup {"access_info", "authenticated", "access_timestamp",
          "show_add_property_form_main", "show_add_maintenance_form_main",
          "editing_property_address", "active_tab", "maintenance_filter_urgency"}

\* C24: a logout removes the documented keys and nothing else: every other
\* key keeps its value, a documented key is gone or back at the default the
\* next script run gives it, no key is new, and the session is no longer
\* authenticated; neither a logout nor a login changes the property list or
\* the maintenance records.
C24_LogoutClearsDocumentedKeys ==
    [][/\ pc' = "logout" =>
            /\ \A k \in DOMAIN session_state \ DocumentedLogoutKeys :
                  k \in DOMAIN session_state' /\ session_state'[k] = session_state[k]
            /\ \A k \in DOMAIN session_state' \cap DocumentedLogoutKeys :
                  k \in DOMAIN SessionDefaults /\ session_state'[k] = SessionDefaults[k]
            /\ DOMAIN session_state' \subseteq DOMAIN session_state \cup DOMAIN SessionDefaults
            /\ ~is_authenticated(session_state')
       /\ pc' \in {"logout", "access_granted", "access_denied"} =>
            /\ PropertiesOf(session_state') = PropertiesOf(session_state)
            /\ RecordsOf(session_state') = RecordsOf(session_state)]_vars

\* C24 witness: a session with a property, a record and a stored urgency
\* filter has been logged out: the selection is gone, the filter of the
\* record list is still there.
C24_WitnessLoggedOut ==
    /\ pc = "logout"
    /\ Len(session_state.properties) = 1
    /\ Len(session_state.maintenance_records) = 1
    /\ "selected_property_address_health" \notin DOMAIN session_state
    /\ "authenticated" \notin DOMAIN session_state
    /\ "maintenance_filter_urgency_all" \in DOMAIN session_state

(***************************************************************************)
(* The tenant variant (Propsocial-2.py): tenant registration, approval by  *)
(* an administrator, and the community board.                              *)
(*                                                                         *)
(* The session is the st.session_state of one browser; tenants and         *)
(* community_posts live in it next to the properties.  An action is one    *)
(* user event, with the script run st.rerun() starts where the handler     *)
(* calls it.  The keys the tab rendering writes for its select boxes are   *)
(* left out of this session.                                               *)
(***************************************************************************)
MaxTenants == 2   \* registrations in the session
MaxPosts == 1     \* messages on the board

SocialAddresses == {"12 Oak St"}

\* the people who sign the access form; tenant registrations name the same
\* people
People ==
    {[name |-> "Pat Lee", email |-> "pat@example.com"],
     [name |-> "Tina Ray", email |-> "tina@example.com"]}

SocialDefaults ==
    [tenants |-> <<>>, community_posts |-> <<>>] @@ SessionDefaults

\* Dashboard.init_session_state of the tenant variant
social_init_session_state(ss) ==
    [k \in DOMAIN ss \cup DOMAIN SocialDefaults |->
        IF k \in DOMAIN ss THEN ss[k] ELSE SocialDefaults[k]]

\* AuthenticationManager.is_admin
is_admin(ss) == Get(ss, "is_admin", FALSE)

\* ACCESS PREVIEW with the right access code
social_access_preview(ss, person, now) ==
    social_init_session_state(
        Put(Put(Put(Put(ss, "access_info",
                        [name |-> person.name, email |-> person.email, company |-> "",
                         purpose |-> "Other", timestamp |-> now]),
                    "authenticated", TRUE),
                "access_timestamp", now),
            "is_admin", FALSE))

\* Log in as Admin with the right admin code
social_admin_login(ss, now) ==
    social_init_session_state(
        Put(Put(Put(ss, "authenticated", TRUE), "is_admin", TRUE),
            "access_info",
            [name |-> "Admin User", email |-> "admin@pulsus.com", company |-> "PULSUS",
             purpose |-> "Admin Access", timestamp |-> now]))

\* End Session & Logout: 'tenants' does not start with 'tenant_'
social_logout(ss) ==
    LET keys_to_clear ==
            {"access_info", "authenticated", "access_timestamp", "is_admin",
             "show_add_property_form_main", "show_add_maintenance_form_main",
             "editing_property_address", "active_tab"}
            \cup (DOMAIN ss \cap KeysWithPrefix("roi_"))
    IN  social_init_session_state(Del(ss, keys_to_clear))

social_quick_add_property(ss) ==
    social_init_session_state(
        [ss EXCEPT !.show_add_property_form_main = TRUE,
                   !.show_add_maintenance_form_main = FALSE,
                   !.editing_property_address = None])

social_submit_add_property(ss, f) ==
    IF RequiredMissing(f) THEN ss
    ELSE social_init_session_state(
             [ss EXCEPT !.properties = Append(@, NewPropertyFrom(f)),
                        !.show_add_property_form_main = FALSE])

\* Delete Selected Property: its records and its tenants go with it
social_delete_property(ss, address_to_delete) ==
    LET idx_to_delete == FirstIndex(ss.properties, address_to_delete)
    IN  IF idx_to_delete = 0 THEN ss
        ELSE social_init_session_state(
                 [ss EXCEPT
                     !.maintenance_records =
                         SelectSeq(@, LAMBDA r : r.property_address # address_to_delete),
                     !.tenants =
                         SelectSeq(@, LAMBDA t : t.property_address # address_to_delete),
                     !.properties = RemoveAt(@, idx_to_delete),
                     !.editing_property_address =
                         IF @ = address_to_delete THEN None ELSE @])

Tenant(name, email, property_address, registration_date) ==
    [name |-> name, email |-> email, property_address |-> property_address,
     lease_document_data |-> "lease.pdf", is_verified |-> FALSE,
     verification_date |-> None, registration_date |-> registration_date]

\* Submit Registration with every field filled and a lease uploaded
register_tenant(ss, person, property_address, now) ==
    IF \E i \in 1..Len(ss.tenants) :
          /\ ss.tenants[i].email = person.email
          /\ ss.tenants[i].property_address = property_address
    THEN ss
    ELSE social_init_session_state(
             [ss EXCEPT !.tenants =
                 Append(@, Tenant(person.name, person.email, property_address,
                                  strftime(now)))])

\* Approve Tenant
approve_tenant(ss, i, now) ==
    social_init_session_state(
        [ss EXCEPT !.tenants[i].is_verified = TRUE,
                   !.tenants[i].verification_date = strftime(now)])

\* Reject & Delete
reject_tenant(ss, i) ==
    social_init_session_state([ss EXCEPT !.tenants = RemoveAt(@, i)])

\* Revoke Access: the first tenant with the e-mail of the selected one
revoke_tenant(ss, email_to_unverify) ==
    LET found == {i \in 1..Len(ss.tenants) : ss.tenants[i].email = email_to_unverify}
        first == CHOOSE i \in found : \A j \in found : i <= j
    IN  IF found = {} THEN ss
        ELSE social_init_session_state(
                 [ss EXCEPT !.tenants[first].is_verified = FALSE,
                            !.tenants[first].verification_date = None])

\* render_community_board: who gets the form
is_verified_tenant_access(ss) ==
    /\ is_authenticated(ss)
    /\ \/ \E i \in 1..Len(ss.tenants) : ss.tenants[i].is_verified
       \/ is_admin(ss)

\* Post Message (no rerun)
post_message(ss, post_content, now) ==
    IF post_content = "" THEN ss
    ELSE LET post_author == IF is_admin(ss) THEN "Admin User"
                            ELSE IF "access_info" \in DOMAIN ss THEN ss.access_info.name
                            ELSE "Anonymous Tenant"
         IN  [ss EXCEPT !.community_posts =
                 <<[author |-> post_author, content |-> post_content,
                    timestamp |-> strftime(now)]>> \o @]

(***************************************************************************)
(* Specification SpecSocial                                                *)
(***************************************************************************)
InitSocial ==
    /\ today = Now0
    /\ property_data = NoProperty
    /\ args = NoArgs
    /\ pc = "start"
    /\ ret = NoValue
    /\ session_state = social_init_session_state(EmptySession)
    /\ WeatherIdle

SocialTabs == is_authenticated(session_state) /\ MainPanel(session_state) = "tabs"

SocialAccessPreview ==
    /\ ~is_authenticated(session_state)
    /\ \E person \in People :
          Handled("social_access_granted", social_access_preview(session_state, person, today))

SocialAdminLogin ==
    /\ ~is_authenticated(session_state)
    /\ Handled("social_admin_login", social_admin_login(session_state, today))

SocialLogout ==
    /\ is_authenticated(session_state)
    /\ Handled("social_logout", social_logout(session_state))

SocialQuickAddProperty ==
    /\ is_authenticated(session_state)
    /\ Handled("social_quick_add_property", social_quick_add_property(session_state))

SocialSubmitAddProperty ==
    /\ is_authenticated(session_state)
    /\ MainPanel(session_state) = "add_property"
    /\ Len(session_state.properties) < Cardinality(SocialAddresses)
    /\ \E address \in SocialAddresses \ AddressesOf(session_state.properties) :
          Handled("social_add_property",
                  social_submit_add_property(
                      session_state,
                      [address |-> address, city |-> "Culpeper", state |-> "va",
                       zip_code |-> <<"2", "2", "7", "0", "1">>]))

SocialDeleteProperty ==
    /\ is_authenticated(session_state)
    /\ \E i \in 1..Len(session_state.properties) :
          Handled("social_delete_property",
                  social_delete_property(session_state, session_state.properties[i].address))

RegisterTenant ==
    /\ SocialTabs
    /\ Len(session_state.tenants) < MaxTenants
    /\ \E person \in People, i \in 1..Len(session_state.properties) :
          Handled("register_tenant",
                  register_tenant(session_state, person,
                                  session_state.properties[i].address, today))

ApproveTenant ==
    /\ SocialTabs
    /\ is_admin(session_state)
    /\ \E i \in 1..Len(session_state.tenants) :
          /\ ~session_state.tenants[i].is_verified
          /\ Handled("approve_tenant", approve_tenant(session_state, i, today))

RejectTenant ==
    /\ SocialTabs
    /\ is_admin(session_state)
    /\ \E i \in 1..Len(session_state.tenants) :
          /\ ~session_state.tenants[i].is_verified
          /\ Handled("reject_tenant", reject_tenant(session_state, i))

RevokeTenant ==
    /\ SocialTabs
    /\ is_admin(session_state)
    /\ \E i \in 1..Len(session_state.tenants) :
          /\ session_state.tenants[i].is_verified
          /\ Handled("revoke_tenant",
                     revoke_tenant(session_state, session_state.tenants[i].email))

PostMessage ==
    /\ SocialTabs
    /\ is_verified_tenant_access(session_state)
    /\ Len(session_state.community_posts) < MaxPosts
    /\ \E post_content \in {"", "Hello neighbours"} :
          Handled(IF post_content = "" THEN "post_message_empty" ELSE "post_message",
                  post_message(session_state, post_content, today))

NextSocial ==
    \/ SocialAccessPreview
    \/ SocialAdminLogin
    \/ SocialLogout
    \/ SocialQuickAddProperty
    \/ SocialSubmitAddProperty
    \/ SocialDeleteProperty
    \/ RegisterTenant
    \/ ApproveTenant
    \/ RejectTenant
    \/ RevokeTenant
    \/ PostMessage

SpecSocial == InitSocial /\ [][NextSocial]_vars

\* the session is signed in by a person who is registered as a tenant and
\* has been verified
SessionOfVerifiedTenant(ss) ==
    /\ is_authenticated(ss)
    /\ "access_info" \in DOMAIN ss
    /\ \E i \in 1..Len(ss.tenants) :
          /\ ss.tenants[i].is_verified
          /\ ss.tenants[i].email = ss.access_info.email

\* C25: a post is added to community_posts only by a session that is an
\* administrator's or that belongs to a verified tenant.
C25_OnlyVerifiedTenantsPost ==
    [][session_state'.community_posts # session_state.community_posts =>
          \/ is_admin(session_state)
          \/ SessionOfVerifiedTenant(session_state)]_vars

\* the main-panel form modes that are on in a session
ActiveFormModes(ss) ==
    {m \in {"edit_property", "add_property", "add_maintenance"} :
        \/ m = "edit_property" /\ ss.editing_property_address # None
        \/ m = "add_property" /\ ss.show_add_property_form_main
        \/ m = "add_maintenance" /\ ss.show_add_maintenance_form_main}

\* C26: at most one of the three main-panel form modes (editing a property,
\* adding a property, logging maintenance) is on.
C26_OneFormMode == Cardinality(ActiveFormModes(session_state)) <= 1

\* C26 witness: with the add-property form open the user has clicked Log
\* Maintenance Task: the maintenance form is the only mode left.
C26_WitnessFormSwitched ==
    /\ pc = "quick_log_maintenance"
    /\ ActiveFormModes(session_state) = {"add_maintenance"}
    /\ Len(session_state.properties) = 1

\* the slice schedule[:7] listed by the upcoming-tasks panel
UpcomingTasksShown(schedule) ==
    SubSeq(schedule, 1, IF Len(schedule) < 7 THEN Len(schedule) ELSE 7)

\* positions of the returned schedule holding a high or important task
UrgentTasks == {i \in 1..Len(ret) : ret[i].priority \in {"high", "important"}}

\* C27: the returned schedule holds at most 7 tasks of priority high or
\* important, and every task after the slice the upcoming-tasks panel lists
\* is a routine task.
C27_PanelOmitsOnlyRoutineTasks ==
    ScheduleReturned =>
        /\ Cardinality(UrgentTasks) <= 7
        /\ \A i \in 1..Len(ret) :
              i > Len(UpcomingTasksShown(ret)) => ret[i].priority = "routine"

\* C27 witness: a schedule of ten tasks has been returned, seven of them high
\* or important and filling the panel, the three that are cut off routine.
C27_WitnessPanelFull ==
    /\ ScheduleReturned
    /\ Len(ret) = 10
    /\ UrgentTasks = 1..7
    /\ Len(UpcomingTasksShown(ret)) = 7
    /\ \A i \in 8..10 : ret[i].priority = "routine"

\* C28: the overall score returned for a property is at least 27.3 and at
\* most 95.1.
C28_OverallWithinAttainedBounds ==
    pc = "calculate_overall_score" =>
        /\ RLeq(Rat(273, 10), ret.overall_score)
        /\ RLeq(ret.overall_score, Rat(951, 10))

\* C28 witness: a building of the current year on a basement, with a new
\* metal roof, new systems and an inspection dated today has been scored
\* 0.3*97.0 + 0.4*100.0 + 0.2*90.0 + 0.1*80.0 = 95.1.
C28_WitnessHighestScore ==
    /\ pc = "calculate_overall_score"
    /\ property_data.foundation_type = "Basement"
    /\ ret.category_scores.Structural.score = RInt(97)
    /\ ret.category_scores.Systems.score = RInt(100)
    /\ ret.category_scores.Safety.score = RInt(90)
    /\ ret.overall_score = Rat(951, 10)

\* the lower bound is attained as well: a Pier & Beam building with every
\* component past its life has been scored 27.3
C28_LowestScoreAttained ==
    /\ pc = "calculate_overall_score"
    /\ property_data.foundation_type = "Pier & Beam"
    /\ ret.category_scores.Structural.score = RInt(21)
    /\ ret.overall_score = Rat(273, 10)

\* C29: in a signed-in session, deleting the entry selected at position i of
\* the select box leaves the property list without its element i, the other
\* properties unchanged and in order, also when addresses are shared.
C29_DeleteRemovesSelected ==
    is_authenticated(session_state) =>
        \A i \in 1..Len(PropertiesOf(session_state)) :
            PropertiesOf(delete_property(session_state, i)) =
                RemoveAt(PropertiesOf(session_state), i)

(***************************************************************************)
(* Specification SpecUpload: the documents panel of the health tab, one    *)
(* script run per step.  A run that ends in st.rerun() leaves the session  *)
(* at "upload_rerun", and the next run is the one st.rerun() asked for.    *)
(***************************************************************************)
MaxFiles == 2    \* files put into the uploader at once
MaxStored == 4   \* documents of the selected property

\* a signed-in session after the properties at the addresses have been added
RECURSIVE Portfolio(_, _)
Portfolio(addresses, now) ==
    IF addresses = <<>> THEN access_preview(FreshSession, "PropHealth2025!", now)
    ELSE submit_add_property(
             quick_add_property(Portfolio(SubSeq(addresses, 1, Len(addresses) - 1), now)),
             [address |-> addresses[Len(addresses)], city |-> "Culpeper", state |-> "va",
              zip_code |-> <<"2", "2", "7", "0", "1">>])

UploadPortfolios ==
    {<<a>> : a \in Addresses} \cup {<<a, b>> : a \in Addresses, b \in Addresses}

DocumentsShown(ss) == SelectedProperty(ss).documents

InitUpload ==
    /\ today \in Todays
    /\ property_data = NoProperty
    /\ args = NoArgs
    /\ pc = "start"
    /\ ret = NoValue
    /\ \E addresses \in UploadPortfolios :
          \E i \in 1..Len(addresses) :
              session_state = select_property(Portfolio(addresses, today), addresses[i])
    /\ WeatherIdle

\* the script run that has handled an event or a st.rerun() and left ss
Ran(label, ss) ==
    Handled(IF uploaded_files(ss) # <<>> THEN "upload_rerun" ELSE label, ss)

\* the user puts n files into the empty uploader
ChooseFiles ==
    /\ uploaded_files(session_state) = <<>>
    /\ \E n \in 1..MaxFiles :
          /\ Len(DocumentsShown(session_state)) + n <= MaxStored
          /\ Ran("files_chosen",
                 script_run(Put(session_state,
                                DocUploaderKey(SelectedProperty(session_state).address),
                                [i \in 1..n |-> "deed.pdf"]),
                            today))

\* the script run st.rerun() has asked for
Rerun ==
    /\ pc = "upload_rerun"
    /\ Len(DocumentsShown(session_state)) + Len(uploaded_files(session_state)) <= MaxStored
    /\ Ran("rerun", script_run(session_state, today))

\* the user takes the files out of the uploader
RemoveFiles ==
    /\ uploaded_files(session_state) # <<>>
    /\ Ran("files_removed",
           script_run(Del(session_state,
                          {DocUploaderKey(SelectedProperty(session_state).address)}),
                      today))

\* the user clicks the delete button of document i, which the script reaches
\* only in a run that does not end at the st.rerun() of the upload
ClickDeleteDocument ==
    /\ \E i \in 1..Len(DocumentsShown(session_state)) :
          IF uploaded_files(session_state) # <<>>
          THEN /\ Len(DocumentsShown(session_state))
                      + Len(uploaded_files(session_state)) <= MaxStored
               /\ Ran("rerun", script_run(session_state, today))
          ELSE Ran("delete_document", delete_document(session_state, i))

NextUpload == ChooseFiles \/ Rerun \/ RemoveFiles \/ ClickDeleteDocument

SpecUpload == InitUpload /\ [][NextUpload]_vars

\* C30: the script run that follows the st.rerun() of an upload appends
\* nothing: the documents of the selected property stay as the upload left
\* them while the files are still in the uploader.
C30_UploadedFilesAppendedOnce ==
    [][pc = "upload_rerun" =>
          DocumentsShown(session_state') = DocumentsShown(session_state)]_vars

====
